---- MODULE Spec2Model ----
(***************************************************************************)
(* Model of the simple-state container (src/src/index.ts): one instance    *)
(* created by newSimpleState, its four operations get / set / subscribe /  *)
(* unsubscribe, the microtask that runs the deferred dispatch, and the     *)
(* caller and subscriber code around it.                                   *)
(*                                                                         *)
(* JavaScript values are either primitives (compared by value) or          *)
(* references into a heap of objects (compared by identity); an object has *)
(* a class, which never changes, and a content, which its holders can      *)
(* mutate.  An object keeps its cell for good: cells are never reused, so  *)
(* equal reference numbers mean the same object.  (Only where a recipe     *)
(* holds the one reference to the container are the objects that nothing   *)
(* refers to any more collected.)                                          *)
(***************************************************************************)
EXTENDS Integers, Sequences, FiniteSets, TLC

\* ------------------------------------------------------------------ bounds
\* subscribe calls made on the instance (cap on _nextId)
MaxSubs == 3
\* the same cap for a container that holds an object
MaxObjSubs == 2
\* objects ever created: the initial value, the caller's new inputs to set and
\* the copies share() makes
MaxRefs == 3

\* ------------------------------------------------------------------ values
Refs == 1..MaxRefs
\* the content of an object, and the numeric primitives
Contents == {0, 1}

\* a primitive of typeof `ty` (null is the primitive of typeof "object")
Prim(ty, v) == [ty |-> ty, r |-> 0, v |-> v]
\* a reference to the heap object r
Ref(r) == [ty |-> "ref", r |-> r, v |-> 0]
Null == Prim("object", 0)
\* "no value": the result of a call that returns nothing or throws
NoVal == Prim("none", 0)
Num(n) == Prim("number", n)

\* the classes of heap objects; a WeakMap stands for every object that
\* structuredClone cannot copy
Classes == {"Object", "Array", "Map", "Set", "Date", "RegExp", "Function", "WeakMap"}
Free == [cls |-> "", c |-> 0]

PrimValues == {Num(n) : n \in Contents} \cup {Prim("string", 0), Null}

\* The suppressWarnings option and the constructor's console.warn calls are
\* left out: no operation reads them.
VARIABLES
  _type,              \* typeof initial, captured at construction
  _mutableType,       \* getMutableDataType(initial) or "undefined"
  _shouldClone,       \* options?.clone ?? true
  _state,             \* the current value
  _subscribers,       \* the Map's keys in insertion order
  _nextId,
  _dispatchScheduled,
  heap,               \* Refs -> object (or Free); objects are never reused
  microtasks,         \* executeDispatch tasks queued and not yet started
  flushing,           \* dispatch() is on the stack
  cursor,             \* the last Map key forEach visited in this dispatch
  cb,                 \* the key of the callback that is running, or NoCb
  cbArg,              \* the value it was called with
  \* history, for stating the properties
  removed,            \* the ids whose unsubscribe returned normally
  subCalls,           \* the number of subscribe calls made
  delivered,          \* the callback invocations of the last dispatch
  lastOk,             \* the input of the last set that returned normally
  clean,              \* in that dispatch no callback has called the container or thrown
  batch,              \* the sets that changed the value since the last dispatch began: 0, 1, or 2 for more
  flushed,            \* what batch was when the last dispatch began
  atStart,            \* where it is followed: the Map's keys when the dispatch began that runs or has run to its end
  last,               \* the step just taken: operation, error thrown, result
  recipe              \* the closure of the recipe built around the container, if any

vars == <<_type, _mutableType, _shouldClone, _state,
          _subscribers, _nextId, _dispatchScheduled, heap, removed,
          subCalls, microtasks, flushing, cursor, cb, cbArg, delivered,
          lastOk, clean, batch, flushed, atStart, last, recipe>>

NoCb == -1
\* the container is used as it is
NoRecipe == [name |-> "none"]
\* a step of the container or of its callers that no recipe is part of
Plain == UNCHANGED recipe

\* ------------------------------------------------------------ pure helpers
\* typeof x, for a value x over the heap h
typeof(h, x) ==
  IF x.r = 0 THEN x.ty
  ELSE IF h[x.r].cls = "Function" THEN "function" ELSE "object"

\* isMutable() without the test for null
isMutableNull(h, input) ==
  typeof(h, input) = "object" \/ typeof(h, input) = "function"


isMutable(h, input) ==
  IF input = Null THEN FALSE
  ELSE typeof(h, input) = "object" \/ typeof(h, input) = "function"

\* getMutableDataType() without the Array.isArray test
getMutableDataTypeNoArray(h, input) ==
  IF typeof(h, input) = "function" THEN "function"
  ELSE IF input.r # 0 /\ h[input.r].cls = "Map" THEN "map"
  ELSE IF input.r # 0 /\ h[input.r].cls = "Set" THEN "set"
  ELSE IF input.r # 0 /\ h[input.r].cls = "Date" THEN "date"
  ELSE IF input.r # 0 /\ h[input.r].cls = "RegExp" THEN "regex"
  ELSE IF typeof(h, input) = "object" THEN "object"
  ELSE "undefined"

getMutableDataType(h, input) ==
  IF typeof(h, input) = "function" THEN "function"
  ELSE IF input.r # 0 /\ h[input.r].cls = "Array" THEN "array"
  ELSE IF input.r # 0 /\ h[input.r].cls = "Map" THEN "map"
  ELSE IF input.r # 0 /\ h[input.r].cls = "Set" THEN "set"
  ELSE IF input.r # 0 /\ h[input.r].cls = "Date" THEN "date"
  ELSE IF input.r # 0 /\ h[input.r].cls = "RegExp" THEN "regex"
  ELSE IF typeof(h, input) = "object" THEN "object"
  ELSE "undefined"

\* a structuredClone that copies everything
ClonableAll(h, x) == TRUE
\* structuredClone succeeds on every class but functions and weak collections
Clonable(h, x) == h[x.r].cls \notin {"Function", "WeakMap"}

\* what a reader sees of a value: its kind and its content, not its identity
View(h, x) ==
  IF x.r = 0 THEN [ty |-> x.ty, cls |-> "", c |-> x.v]
  ELSE [ty |-> typeof(h, x), cls |-> h[x.r].cls, c |-> h[x.r].c]

RefOf(x) == IF x.r = 0 THEN {} ELSE {x.r}

Allocated(h) == {r \in Refs : h[r].cls # ""}
FreeRefs(h) == Refs \ Allocated(h)
\* the cell a new object is put in (0 when the heap is full)
NewRef(h) ==
  IF FreeRefs(h) = {} THEN 0
  ELSE CHOOSE r \in FreeRefs(h) : \A q \in FreeRefs(h) : r <= q

Step(op, err, ret) == [op |-> op, err |-> err, ret |-> ret]

Range(s) == {s[i] : i \in 1..Len(s)}

\* the Map without the key id, order kept
Remove(s, id) == SelectSeq(s, LAMBDA k : k # id)

\* ------------------------------------------------------------- construction
OptValues == {"unset", "true", "false"}

newSimpleState(h, initial, oc) ==
  /\ _type = typeof(h, initial)
  /\ _mutableType = IF isMutable(h, initial) THEN getMutableDataType(h, initial) ELSE "undefined"
  /\ _shouldClone = (IF oc = "unset" THEN TRUE ELSE oc = "true")   \* options?.clone ?? true
  /\ _state = initial
  /\ _subscribers = <<>>
  /\ _nextId = 0
  /\ _dispatchScheduled = FALSE

\* the heap holding one object of class cls in cell 1
OneObject(cls) == [r \in Refs |-> IF r = 1 THEN [cls |-> cls, c |-> 0] ELSE Free]
EmptyHeap == [r \in Refs |-> Free]

InitRest ==
  /\ removed = {}
  /\ subCalls = 0
  /\ microtasks = 0
  /\ flushing = FALSE
  /\ cursor = NoCb
  /\ cb = NoCb
  /\ cbArg = NoVal
  /\ delivered = <<>>
  /\ lastOk = NoVal
  /\ clean = TRUE
  /\ batch = 0
  /\ flushed = 0
  /\ atStart = <<>>
  /\ last = Step("new", "none", NoVal)

\* a container made with a primitive (or null) initial value
Init ==
  /\ \E oc \in OptValues, p \in PrimValues :
       /\ heap = EmptyHeap
       /\ newSimpleState(heap, p, oc)
  /\ recipe = NoRecipe
  /\ InitRest

\* the containers of objects that are followed: the initial value is a plain
\* object or a function under each clone option, or an array or an object that
\* cannot be copied under the default
InitObj ==
  /\ \E cfg \in ({"Object", "Function"} \X OptValues) \cup ({"Array", "WeakMap"} \X {"unset"}) :
       /\ heap = OneObject(cfg[1])
       /\ newSimpleState(heap, Ref(1), cfg[2])
  /\ recipe = NoRecipe
  /\ InitRest

\* ------------------------------------------------------------------- share
\* share() without the copy
shareByReference == [err |-> "none", val |-> _state, copy |-> FALSE]

\* share() making one copy for a whole dispatch
shareOneCopy ==
  IF ~_shouldClone \/ ~isMutable(heap, _state)
    THEN [err |-> "none", val |-> _state, copy |-> FALSE]
  ELSE IF _type = "function"
    THEN [err |-> "none", val |-> _state, copy |-> FALSE]
  ELSE IF Clonable(heap, _state)
    THEN IF flushing /\ delivered # <<>>
           THEN [err |-> "none", val |-> delivered[1].val, copy |-> FALSE]
           ELSE [err |-> "none", val |-> Ref(NewRef(heap)), copy |-> TRUE]
  ELSE [err |-> "CloneFailure", val |-> NoVal, copy |-> FALSE]

\* share() handing every subscriber of a dispatch what the first one was given
shareAtStart ==
  IF flushing /\ cb = NoCb /\ delivered # <<>>
    THEN [err |-> "none", val |-> delivered[1].val, copy |-> FALSE]
    ELSE [err |-> "none", val |-> _state, copy |-> FALSE]


\* share(): the error it throws, the value it returns, and whether that value
\* is a copy made by structuredClone
share ==
  IF ~_shouldClone \/ ~isMutable(heap, _state)
    THEN [err |-> "none", val |-> _state, copy |-> FALSE]
  ELSE IF _type = "function"
    THEN [err |-> "none", val |-> _state, copy |-> FALSE]
  ELSE IF Clonable(heap, _state)
    THEN [err |-> "none", val |-> Ref(NewRef(heap)), copy |-> TRUE]
  ELSE [err |-> "CloneFailure", val |-> NoVal, copy |-> FALSE]

\* the heap after share(): the copy is a new object with the stored one's
\* class and content
Shared(sh) ==
  IF sh.copy THEN [heap EXCEPT ![sh.val.r] = heap[_state.r]] ELSE heap

\* a copy needs a free cell
CanShare == share.copy => FreeRefs(heap) # {}

\* ---------------------------------------------------------------- dispatch
\* scheduleDispatch() without the flag's guard
scheduleDispatchAlways == [scheduled |-> TRUE, queued |-> microtasks + 1]

\* scheduleDispatch(): the flag and the microtask queue after the call
scheduleDispatch ==
  IF ~_dispatchScheduled
    THEN [scheduled |-> TRUE, queued |-> microtasks + 1]
    ELSE [scheduled |-> _dispatchScheduled, queued |-> microtasks]

\* (PendingSnapshot: a walk over the keys the Map had when the dispatch began.)
\* Map.prototype.forEach visits the entries in insertion order, skips an
\* entry deleted before its turn and visits an entry added during the walk.
\* Keys are issued in increasing order and never inserted twice, so the entry
\* after the one with key `cur` is the first one of the Map with a key above
\* `cur`.
PendingSnapshot(subs, cur) == SelectSeq(atStart, LAMBDA k : k > cur)
Pending(subs, cur) == SelectSeq(subs, LAMBDA k : k > cur)

\* --------------------------------------------------------------------- set
\* a call that throws or changes nothing, and drops the queued dispatch
KeptCancels(err) ==
  [err |-> err, state |-> _state, scheduled |-> FALSE, queued |-> 0]
\* a call that leaves everything as it is, throwing err unless err is "none"
Kept(err) ==
  [err |-> err, state |-> _state, scheduled |-> _dispatchScheduled, queued |-> microtasks]
\* a call that schedules the dispatch and leaves the write to it
WrittenLater(input) ==
  [err |-> "none", state |-> _state,
   scheduled |-> scheduleDispatch.scheduled, queued |-> scheduleDispatch.queued]
\* a call that replaces the value and calls scheduleDispatch()
Written(input) ==
  [err |-> "none", state |-> input,
   scheduled |-> scheduleDispatch.scheduled, queued |-> scheduleDispatch.queued]

\* set() without the identity check
setAlways(h, input) ==
  IF typeof(h, input) # _type THEN Kept("IncompatibleType")
  ELSE IF isMutable(h, input) /\ getMutableDataType(h, input) # _mutableType
    THEN Kept("IncompatibleCompositeType")
  ELSE Written(input)

\* set() comparing the contents instead of the references
setByContent(h, input) ==
  IF typeof(h, input) # _type THEN Kept("IncompatibleType")
  ELSE IF isMutable(h, input) /\ getMutableDataType(h, input) # _mutableType
    THEN Kept("IncompatibleCompositeType")
  ELSE IF View(h, _state) # View(h, input) THEN Written(input)
  ELSE Kept("none")

\* set() without the typeof check
setUntyped(h, input) ==
  IF isMutable(h, input) /\ getMutableDataType(h, input) # _mutableType
    THEN Kept("IncompatibleCompositeType")
  ELSE IF _state # input THEN Written(input)
  ELSE Kept("none")

\* set() without the check of the composite kind
setAnyKind(h, input) ==
  IF typeof(h, input) # _type THEN Kept("IncompatibleType")
  ELSE IF _state # input THEN Written(input)
  ELSE Kept("none")

\* set(input) over the heap h (which holds input): the error thrown, and the
\* value, flag and queue it leaves
set(h, input) ==
  IF typeof(h, input) # _type
    THEN Kept("IncompatibleType")
  ELSE IF isMutable(h, input) /\ getMutableDataType(h, input) # _mutableType
    THEN Kept("IncompatibleCompositeType")
  ELSE IF _state # input
    THEN Written(input)
  ELSE Kept("none")

\* --------------------------------------------------------------- subscribe
\* subscribe() putting the new entry first
subscribeFirst ==
  [id |-> _nextId, subs |-> <<_nextId>> \o _subscribers, next |-> _nextId + 1]

\* subscribe() taking the size of the registry as the id
subscribeBySize ==
  [id |-> Len(_subscribers),
   subs |-> Append(Remove(_subscribers, Len(_subscribers)), Len(_subscribers)),
   next |-> _nextId + 1]

\* subscribe(callback): the id it returns, and the registry and counter it leaves
subscribe ==
  [id |-> _nextId, subs |-> Append(_subscribers, _nextId), next |-> _nextId + 1]

\* ------------------------------------------------------------- unsubscribe
UnsubInputs == {Num(n) : n \in 0..MaxSubs} \cup {Prim("string", 0)}

\* unsubscribe() that checks and does not delete
unsubscribeKeeps(id) ==
  IF id.ty # "number" THEN [err |-> "InvalidUnsubscribeInput", subs |-> _subscribers]
  ELSE IF id.v \notin Range(_subscribers)
    THEN [err |-> "InvalidSubscriptionId", subs |-> _subscribers]
  ELSE [err |-> "none", subs |-> _subscribers]

\* unsubscribe() that deletes without looking for the id first
unsubscribeLenient(id) ==
  IF id.ty # "number" THEN [err |-> "InvalidUnsubscribeInput", subs |-> _subscribers]
  ELSE [err |-> "none", subs |-> Remove(_subscribers, id.v)]

\* unsubscribe(id): the error thrown and the registry it leaves
unsubscribe(id) ==
  IF id.ty # "number"
    THEN [err |-> "InvalidUnsubscribeInput", subs |-> _subscribers]
  ELSE IF id.v \notin Range(_subscribers)
    THEN [err |-> "InvalidSubscriptionId", subs |-> _subscribers]
  ELSE [err |-> "none", subs |-> Remove(_subscribers, id.v)]

\* ----------------------------------------------------------------- actions
\* code that can call the container is running: the calling code between two
\* dispatches, or a subscriber's callback
CanCall == ~flushing \/ cb # NoCb

Config == <<_type, _mutableType, _shouldClone>>
Walk == <<flushing, cursor, cb, cbArg>>

\* the history of a dispatch is kept until the calling code's next call; a
\* call made by a callback is noted
Noted ==
  IF flushing
    THEN delivered' = delivered /\ clean' = FALSE /\ flushed' = flushed /\ atStart' = atStart
    ELSE delivered' = <<>> /\ clean' = TRUE /\ flushed' = 0 /\ atStart' = <<>>

\* what the two forms of the set action share
SetEffect(h, input) ==
  LET res == set(h, input) IN
  /\ _state' = res.state
  /\ _dispatchScheduled' = res.scheduled
  /\ microtasks' = res.queued
  /\ heap' = IF res.err = "none" THEN h ELSE heap
  /\ lastOk' = IF res.err = "none" THEN input ELSE lastOk
  /\ batch' = IF res.err = "none" /\ input # _state THEN (IF batch = 0 THEN 1 ELSE 2) ELSE batch
  /\ last' = Step("set", res.err, NoVal)
  /\ Noted
  /\ UNCHANGED <<Config, Walk, _subscribers, _nextId, removed, subCalls>>

\* set(input) with a primitive or with an object that exists already
Set(input) ==
  /\ CanCall
  /\ SetEffect(heap, input)

\* set(input) with an object made for the call; it is forgotten when the call
\* throws
SetNew(cls) ==
  /\ CanCall
  /\ FreeRefs(heap) # {}
  /\ SetEffect([heap EXCEPT ![NewRef(heap)] = [cls |-> cls, c |-> 0]], Ref(NewRef(heap)))

Get ==
  /\ CanCall
  /\ CanShare
  /\ LET sh == share IN
     /\ heap' = Shared(sh)
     /\ last' = Step("get", sh.err, sh.val)
  /\ Noted
  /\ UNCHANGED <<Config, Walk, _state, _subscribers, _nextId, _dispatchScheduled,
                 microtasks, removed, subCalls, lastOk, batch>>

Subscribe ==
  /\ CanCall
  /\ _nextId < (IF _mutableType = "undefined" THEN MaxSubs ELSE MaxObjSubs)   \* the calls the model follows
  /\ LET res == subscribe IN
     /\ _subscribers' = res.subs
     /\ _nextId' = res.next
     /\ last' = Step("subscribe", "none", Num(res.id))
  /\ subCalls' = subCalls + 1
  /\ Noted
  /\ UNCHANGED <<Config, Walk, _state, _dispatchScheduled, heap,
                 microtasks, removed, lastOk, batch>>

Unsubscribe(id) ==
  /\ CanCall
  /\ LET res == unsubscribe(id) IN
     /\ _subscribers' = res.subs
     /\ removed' = IF res.err = "none" THEN removed \cup {id.v} ELSE removed
     /\ last' = Step("unsubscribe", res.err, NoVal)
  /\ Noted
  /\ UNCHANGED <<Config, Walk, _state, _nextId, _dispatchScheduled, heap,
                 microtasks, subCalls, lastOk, batch>>

\* the calling code changes an object, or the running callback changes the
\* value it was called with
Mutate(r, c) ==
  /\ ~flushing \/ (cb # NoCb /\ r \in RefOf(cbArg))
  /\ r \in Allocated(heap)
  /\ heap[r].cls # "Function"
  /\ c # heap[r].c
  /\ heap' = [heap EXCEPT ![r].c = c]
  /\ last' = Step("mutate", "none", NoVal)
  /\ Noted
  /\ UNCHANGED <<Config, Walk, _state, _subscribers, _nextId, _dispatchScheduled,
                 microtasks, removed, subCalls, lastOk, batch>>

\* the microtask leaving the flag as it is
executeDispatchKeepsFlag ==
  /\ ~flushing
  /\ microtasks > 0
  /\ microtasks' = microtasks - 1
  /\ flushing' = TRUE
  /\ cursor' = NoCb
  /\ delivered' = <<>>
  /\ clean' = TRUE
  /\ batch' = 0
  /\ flushed' = batch
  /\ atStart' = <<>>
  /\ last' = Step("executeDispatch", "none", NoVal)
  /\ UNCHANGED <<Config, cb, cbArg, _state, _subscribers, _nextId, heap,
                 removed, subCalls, lastOk, _dispatchScheduled>>

\* the microtask starts: the flag is cleared and dispatch() begins its walk;
\* `start` is what the history keeps of the Map at this moment
executeDispatchFrom(start) ==
  /\ ~flushing
  /\ microtasks > 0
  /\ microtasks' = microtasks - 1
  /\ _dispatchScheduled' = FALSE
  /\ flushing' = TRUE
  /\ cursor' = NoCb
  /\ delivered' = <<>>
  /\ clean' = TRUE
  /\ batch' = 0
  /\ flushed' = batch
  /\ atStart' = start
  /\ last' = Step("executeDispatch", "none", NoVal)
  /\ UNCHANGED <<Config, cb, cbArg, _state, _subscribers, _nextId, heap,
                 removed, subCalls, lastOk>>

executeDispatch == executeDispatchFrom(<<>>)

\* forEach calls the next callback with share(); a share() that throws ends
\* the walk
notifySubscriber ==
  /\ flushing
  /\ cb = NoCb
  /\ Pending(_subscribers, cursor) # <<>>
  /\ CanShare
  /\ LET id == Head(Pending(_subscribers, cursor))
         sh == share
     IN
     /\ cursor' = id
     /\ IF sh.err = "none"
          THEN /\ cb' = id
               /\ cbArg' = sh.val
               /\ heap' = Shared(sh)
               /\ delivered' = Append(delivered,
                    [id |-> id, val |-> sh.val, view |-> View(heap, _state), of |-> _state])
               /\ UNCHANGED <<flushing, clean, atStart>>
          ELSE /\ flushing' = FALSE
               /\ clean' = FALSE
               /\ atStart' = <<>>
               /\ UNCHANGED <<cb, cbArg, heap, delivered>>
     /\ last' = Step("notify", sh.err, Num(id))
  /\ UNCHANGED <<Config, _state, _subscribers, _nextId, _dispatchScheduled,
                 removed, subCalls, microtasks, lastOk, batch, flushed>>

\* the running callback returns
CallbackReturn ==
  /\ cb # NoCb
  /\ cb' = NoCb
  /\ cbArg' = NoVal
  /\ last' = Step("return", "none", Num(cb))
  /\ UNCHANGED <<Config, flushing, cursor, _state, _subscribers, _nextId,
                 _dispatchScheduled, heap, removed, subCalls,
                 microtasks, delivered, flushed, atStart, lastOk, batch, clean>>

\* a dispatch loop that catches what a callback throws and goes on
CallbackThrowIsolated ==
  /\ cb # NoCb
  /\ cb' = NoCb
  /\ cbArg' = NoVal
  /\ clean' = FALSE
  /\ last' = Step("throw", "thrown", Num(cb))
  /\ UNCHANGED <<Config, flushing, cursor, _state, _subscribers, _nextId, _dispatchScheduled,
                 heap, removed, subCalls, microtasks, delivered, flushed, lastOk, batch, atStart>>

\* the running callback throws: the error leaves forEach and the microtask
CallbackThrow ==
  /\ cb # NoCb
  /\ cb' = NoCb
  /\ cbArg' = NoVal
  /\ flushing' = FALSE
  /\ clean' = FALSE
  /\ atStart' = <<>>
  /\ last' = Step("throw", "thrown", Num(cb))
  /\ UNCHANGED <<Config, cursor, _state, _subscribers, _nextId, _dispatchScheduled,
                 heap, removed, subCalls, microtasks, delivered, flushed, lastOk, batch>>

\* forEach has visited every entry: dispatch() returns
dispatchDone ==
  /\ flushing
  /\ cb = NoCb
  /\ Pending(_subscribers, cursor) = <<>>
  /\ flushing' = FALSE
  /\ last' = Step("dispatched", "none", NoVal)
  /\ UNCHANGED <<Config, cursor, cb, cbArg, _state, _subscribers, _nextId,
                 _dispatchScheduled, heap, removed, subCalls,
                 microtasks, delivered, flushed, atStart, lastOk, batch, clean>>

SetHeld == \E input \in PrimValues \cup {Ref(r) : r \in Allocated(heap)} : Set(input)
\* the objects made for a call are of every class that can be copied: an object
\* that cannot is the initial value of a container, and is handed to set again
\* as an object that exists already
FreshClasses == Classes \ {"WeakMap"}

\* every call can come from the calling code and from a running callback
Next ==
  \/ SetHeld /\ Plain
  \/ (\E cls \in FreshClasses : SetNew(cls)) /\ Plain
  \/ Get /\ Plain
  \/ Subscribe /\ Plain
  \/ (\E id \in UnsubInputs : Unsubscribe(id)) /\ Plain
  \/ executeDispatch /\ Plain
  \/ notifySubscriber /\ Plain
  \/ CallbackReturn /\ Plain
  \/ CallbackThrow /\ Plain
  \/ dispatchDone /\ Plain

Spec == Init /\ [][Next]_vars

\* the event loop runs a queued microtask once the code that is running has
\* returned; a callback returns or throws, and forEach goes on to the end of
\* the Map
SpecLive ==
  /\ Init /\ [][Next]_vars
  /\ WF_vars(executeDispatch /\ Plain)
  /\ WF_vars(notifySubscriber /\ Plain)
  /\ WF_vars((CallbackReturn \/ CallbackThrow) /\ Plain)
  /\ WF_vars(dispatchDone /\ Plain)

\* the calling code is running, no dispatch is
Caller == ~flushing

\* a container of a primitive whose callbacks subscribe and unsubscribe, and
\* neither set nor throw; the history keeps the Map of the dispatch's start
SpecReg ==
  /\ Init
  /\ [][\/ Caller /\ SetHeld /\ Plain
        \/ Subscribe /\ Plain
        \/ (\E id \in UnsubInputs : Unsubscribe(id)) /\ Plain
        \/ executeDispatchFrom(_subscribers) /\ Plain
        \/ notifySubscriber /\ Plain
        \/ CallbackReturn /\ Plain
        \/ dispatchDone /\ Plain]_vars

\* a container of objects whose subscribers stay subscribed, change what they
\* are given, do not call the container and do not throw
SpecObj ==
  /\ InitObj
  /\ [][\/ Caller /\ SetHeld /\ Plain
        \/ Caller /\ (\E cls \in FreshClasses : SetNew(cls)) /\ Plain
        \/ Caller /\ Get /\ Plain
        \/ Caller /\ Subscribe /\ Plain
        \/ (\E r \in Refs, c \in Contents : Mutate(r, c)) /\ Plain
        \/ executeDispatch /\ Plain
        \/ notifySubscriber /\ Plain
        \/ CallbackReturn /\ Plain
        \/ dispatchDone /\ Plain]_vars

\* ----------------------------------------------------------------- recipes
\* a call of the recipe that finds nothing to do
Idle(op) ==
  /\ last' = Step(op, "none", NoVal)
  /\ Noted
  /\ UNCHANGED <<Config, Walk, _state, _subscribers, _nextId, _dispatchScheduled,
                 microtasks, heap, removed, subCalls, lastOk, batch>>

\* examples/recipes/undo-redo.ts, createUndoable: `history` and `index` (from
\* 0) are the closure's; the rest is the record of the calls made: the values
\* written `vs`, from the initial one, then `k` undo calls that found an
\* entry to go back to, then `j` redo calls that found one to go forward to
\* (`phase` is "x" once the calls came in another order, and the record is
\* dropped)
MaxWrites == 3
UndoValues == {Num(0), Num(1), Num(2)}

\* the record of a call: kept when the call comes in order, dropped when not
Recorded(r, inOrder, phase) ==
  IF inOrder THEN [r EXCEPT !.phase = phase]
  ELSE [r EXCEPT !.phase = "x", !.vs = <<>>, !.k = 0, !.j = 0]

InitUndo ==
  /\ \E initial \in UndoValues :
       /\ heap = EmptyHeap
       /\ newSimpleState(heap, initial, "unset")
       /\ recipe = [name |-> "undoable", history |-> <<initial>>, index |-> 0,
                    vs |-> <<initial>>, phase |-> "w", k |-> 0, j |-> 0]
  /\ InitRest

\* canUndo: () => index > 0, canRedo: () => index < history.length - 1
canUndo == recipe.index > 0
canRedo == recipe.index < Len(recipe.history) - 1

\* the wrapped set without the splice
UndoableSetKeeps(value) ==
  /\ Caller
  /\ recipe.index < MaxWrites
  /\ Set(value)
  /\ LET history == Append(recipe.history, value) IN
     recipe' = Recorded([recipe EXCEPT
                   !.history = history,
                   !.index = Len(history) - 1,
                   !.vs = Append(@, value)],
                 recipe.phase = "w", "w")

\* state.set = (value) => { history.splice(index + 1); history.push(value);
\* index = history.length - 1; originalSet(value) }
UndoableSet(value) ==
  /\ Caller
  /\ recipe.index < MaxWrites
  /\ Set(value)
  /\ LET history == Append(SubSeq(recipe.history, 1, recipe.index + 1), value) IN
     recipe' = Recorded([recipe EXCEPT
                   !.history = history,
                   !.index = Len(history) - 1,
                   !.vs = Append(@, value)],
                 recipe.phase = "w", "w")

\* undo() setting the entry it leaves
undoStale ==
  /\ Caller
  /\ IF recipe.index > 0
       THEN /\ Set(recipe.history[recipe.index + 1])
            /\ recipe' = Recorded([recipe EXCEPT !.index = @ - 1, !.k = @ + 1],
                                  recipe.phase \in {"w", "u"}, "u")
       ELSE Idle("undo") /\ UNCHANGED recipe

\* undo: () => { if (index > 0) { index--; originalSet(history[index]) } }
undo ==
  /\ Caller
  /\ IF recipe.index > 0
       THEN /\ Set(recipe.history[recipe.index])
            /\ recipe' = Recorded([recipe EXCEPT !.index = @ - 1, !.k = @ + 1],
                                  recipe.phase \in {"w", "u"}, "u")
       ELSE Idle("undo") /\ UNCHANGED recipe

\* redo: () => { if (index < history.length - 1) { index++; originalSet(history[index]) } }
redo ==
  /\ Caller
  /\ IF recipe.index < Len(recipe.history) - 1
       THEN /\ Set(recipe.history[recipe.index + 2])
            /\ recipe' = Recorded([recipe EXCEPT !.index = @ + 1, !.j = @ + 1],
                                  recipe.phase \in {"u", "r"}, "r")
       ELSE Idle("redo") /\ UNCHANGED recipe


SpecUndo ==
  /\ InitUndo
  /\ [][\/ \E value \in UndoValues : UndoableSet(value)
        \/ undo
        \/ redo
        \/ executeDispatch /\ Plain
        \/ dispatchDone /\ Plain]_vars

\* createUndoable with a caller that also passes a value of another type
\* (a string, to the container of a number)
SpecUndoAny ==
  /\ InitUndo
  /\ [][\/ \E value \in UndoValues \cup {Prim("string", 0)} : UndoableSet(value)
        \/ undo
        \/ redo
        \/ executeDispatch /\ Plain
        \/ dispatchDone /\ Plain]_vars


\* examples/recipes/undo-redo.ts, createLimitedUndoable: `history`, `index`
\* and `maxHistory` are the closure's; the rest is the record of the calls
\* made: `run` consecutive writes (counted up to maxHistory), then `undone`
\* undo calls that found an entry to go back to (`phase` is "x" once the calls
\* came in another order, and the record is dropped)
MaxCap == 3
InitLimited ==
  /\ \E initial \in UndoValues, maxHistory \in 1..MaxCap :
       /\ heap = EmptyHeap
       /\ newSimpleState(heap, initial, "unset")
       /\ recipe = [name |-> "limited", history |-> <<initial>>, index |-> 0,
                    maxHistory |-> maxHistory, run |-> 0, undone |-> 0, phase |-> "w"]
  /\ InitRest

\* the wrapped set without the shift
LimitedSetNoShift(value) ==
  /\ Caller
  /\ Set(value)
  /\ LET history == Append(SubSeq(recipe.history, 1, recipe.index + 1), value) IN
     recipe' = [recipe EXCEPT
                  !.history = history,
                  !.index = Len(history) - 1,
                  !.run = IF recipe.phase # "w" THEN 1
                          ELSE IF @ < recipe.maxHistory THEN @ + 1 ELSE @,
                  !.undone = 0,
                  !.phase = "w"]

\* state.set = (value) => { history.splice(index + 1); history.push(value);
\* if (history.length > maxHistory) history.shift();
\* index = history.length - 1; originalSet(value) }
LimitedSet(value) ==
  /\ Caller
  /\ Set(value)
  /\ LET pushed == Append(SubSeq(recipe.history, 1, recipe.index + 1), value)
         history == IF Len(pushed) > recipe.maxHistory THEN Tail(pushed) ELSE pushed
     IN recipe' = [recipe EXCEPT
                     !.history = history,
                     !.index = Len(history) - 1,
                     !.run = IF recipe.phase # "w" THEN 1
                             ELSE IF @ < recipe.maxHistory THEN @ + 1 ELSE @,
                     !.undone = 0,
                     !.phase = "w"]

\* undo: () => { if (index > 0) { index--; originalSet(history[index]) } }
LimitedUndo ==
  /\ Caller
  /\ IF recipe.index > 0
       THEN /\ Set(recipe.history[recipe.index])
            /\ recipe' = IF recipe.phase \in {"w", "u"}
                           THEN [recipe EXCEPT !.index = @ - 1, !.undone = @ + 1, !.phase = "u"]
                           ELSE [recipe EXCEPT !.index = @ - 1]
       ELSE Idle("undo") /\ UNCHANGED recipe

\* redo: () => { if (index < history.length - 1) { index++; originalSet(history[index]) } }
LimitedRedo ==
  /\ Caller
  /\ IF recipe.index < Len(recipe.history) - 1
       THEN /\ Set(recipe.history[recipe.index + 2])
            /\ recipe' = [recipe EXCEPT !.index = @ + 1, !.run = 0, !.undone = 0, !.phase = "x"]
       ELSE Idle("redo") /\ UNCHANGED recipe


SpecLimited ==
  /\ InitLimited
  /\ [][\/ \E value \in UndoValues : LimitedSet(value)
        \/ LimitedUndo
        \/ LimitedRedo
        \/ executeDispatch /\ Plain
        \/ dispatchDone /\ Plain]_vars

\* examples/recipes/undo-redo.ts, createTransactionalUndoable: `history`,
\* `index`, `isInTransaction` and `transactionStart` (null when there is none)
\* are the closure's; the rest is the record of the calls made: `phase` is
\* "open" from beginTransaction while only set is called, "committed" after
\* the commitTransaction that follows, "undone" after the undo that follows
\* it, and `held` is what the container held at that beginTransaction
NoView == [ty |-> "none", cls |-> "", c |-> 0]

createTransactionalUndoable(initial) ==
  [name |-> "transactional", history |-> <<initial>>, index |-> 0,
   isInTransaction |-> FALSE, transactionStart |-> Null,
   phase |-> "idle", held |-> NoView]

\* the container holds a number, or a plain object as in the usage
InitTx ==
  /\ \/ \E initial \in UndoValues :
          /\ heap = EmptyHeap
          /\ newSimpleState(heap, initial, "unset")
          /\ recipe = createTransactionalUndoable(initial)
     \/ /\ heap = OneObject("Object")
        /\ newSimpleState(heap, Ref(1), "unset")
        /\ recipe = createTransactionalUndoable(Ref(1))
  /\ InitRest

\* the record of a call that is not part of the sequence followed
Aside(r) ==
  [r EXCEPT !.phase = IF r.isInTransaction THEN "other" ELSE "idle", !.held = NoView]

\* state.set = (value) => { if (!isInTransaction) { history.splice(index + 1);
\* history.push(value); index = history.length - 1 } originalSet(value) }
TxSet(value) ==
  /\ Caller
  /\ typeof(heap, value) = _type
  /\ recipe.isInTransaction \/ recipe.index < MaxWrites
  /\ Set(value)
  /\ IF recipe.isInTransaction
       THEN UNCHANGED recipe
       ELSE LET history == Append(SubSeq(recipe.history, 1, recipe.index + 1), value) IN
            recipe' = Aside([recipe EXCEPT !.history = history, !.index = Len(history) - 1])

\* beginTransaction: () => { isInTransaction = true; transactionStart = state.get() }
beginTransaction ==
  /\ Caller
  /\ Get
  /\ recipe' = [recipe EXCEPT
                  !.isInTransaction = TRUE,
                  !.transactionStart = share.val,
                  !.phase = IF recipe.isInTransaction THEN "other" ELSE "open",
                  !.held = IF recipe.isInTransaction THEN NoView ELSE View(heap, _state)]

\* commitTransaction: () => { if (isInTransaction && transactionStart !== null) {
\* history.splice(index + 1); history.push(state.get());
\* index = history.length - 1; isInTransaction = false; transactionStart = null } }
commitTransaction ==
  /\ Caller
  /\ IF recipe.isInTransaction /\ recipe.transactionStart # Null
       THEN /\ recipe.index < MaxWrites
            /\ Get
            /\ LET history == Append(SubSeq(recipe.history, 1, recipe.index + 1), share.val) IN
               recipe' = [recipe EXCEPT
                            !.history = history,
                            !.index = Len(history) - 1,
                            !.isInTransaction = FALSE,
                            !.transactionStart = Null,
                            !.phase = IF @ = "open" THEN "committed" ELSE "idle",
                            !.held = IF recipe.phase = "open" THEN @ ELSE NoView]
       ELSE Idle("commitTransaction") /\ UNCHANGED recipe

\* rollbackTransaction: () => { if (isInTransaction && transactionStart !== null) {
\* originalSet(transactionStart); isInTransaction = false; transactionStart = null } }
rollbackTransaction ==
  /\ Caller
  /\ IF recipe.isInTransaction /\ recipe.transactionStart # Null
       THEN /\ Set(recipe.transactionStart)
            /\ recipe' = [recipe EXCEPT
                            !.isInTransaction = FALSE,
                            !.transactionStart = Null,
                            !.phase = "idle",
                            !.held = NoView]
       ELSE Idle("rollbackTransaction") /\ UNCHANGED recipe

\* undo: () => { if (index > 0) { index--; originalSet(history[index]) } }
TxUndo ==
  /\ Caller
  /\ IF recipe.index > 0
       THEN /\ Set(recipe.history[recipe.index])
            /\ recipe' = IF recipe.phase = "committed"
                           THEN [recipe EXCEPT !.index = @ - 1, !.phase = "undone"]
                           ELSE Aside([recipe EXCEPT !.index = @ - 1])
       ELSE Idle("undo") /\ UNCHANGED recipe

\* redo: () => { if (index < history.length - 1) { index++; originalSet(history[index]) } }
TxRedo ==
  /\ Caller
  /\ IF recipe.index < Len(recipe.history) - 1
       THEN /\ Set(recipe.history[recipe.index + 2])
            /\ recipe' = Aside([recipe EXCEPT !.index = @ + 1])
       ELSE Idle("redo") /\ UNCHANGED recipe

\* the values written are of the container's type: numbers, or null and the
\* objects there are
SpecTx ==
  /\ InitTx
  /\ [][\/ \E value \in UndoValues \cup {Null} \cup {Ref(r) : r \in Allocated(heap)} : TxSet(value)
        \/ beginTransaction
        \/ commitTransaction
        \/ rollbackTransaction
        \/ TxUndo
        \/ TxRedo
        \/ executeDispatch /\ Plain
        \/ dispatchDone /\ Plain]_vars

\* examples/recipes/undo-redo.ts, createSelectiveUndoable: `changes` is the
\* closure's list of { id, before, after } (the timestamp is not read). The
\* document is held as a number with one binary digit for each of its three
\* fields: the digit is 1 when the field has been given a value.
MaxChanges == 3
ChangeIds == {"set-title", "set-author", "set-content"}
Weight(f) == CASE f = 0 -> 1 [] f = 1 -> 2 [] f = 2 -> 4
Field(x, f) == (x.v \div Weight(f)) % 2
\* the document x with the field f modified
Modified(x, f) == Num(IF Field(x, f) = 1 THEN x.v - Weight(f) ELSE x.v + Weight(f))

InitSelective ==
  /\ heap = EmptyHeap
  /\ newSimpleState(heap, Num(0), "unset")
  /\ recipe = [name |-> "selective", changes |-> <<>>]
  /\ InitRest

\* record: (id, newState) => { changes.push({ id, before: state.get(),
\* after: newState }); state.set(newState) }
record(id, newState) ==
  /\ Caller
  /\ Len(recipe.changes) < MaxChanges
  /\ Set(newState)
  /\ recipe' = [recipe EXCEPT
                  !.changes = Append(@, [id |-> id, before |-> share.val, after |-> newState])]

\* changes.find((c) => c.id === id): the position of the first change
\* recorded under id, 0 when there is none
Find(changes, id) ==
  IF \E i \in 1..Len(changes) : changes[i].id = id
    THEN CHOOSE i \in 1..Len(changes) :
           changes[i].id = id /\ \A n \in 1..(i - 1) : changes[n].id # id
    ELSE 0

\* undoChange: (id) => { const change = changes.find(...);
\* if (change) state.set(change.before) }
undoChange(id) ==
  /\ Caller
  /\ IF Find(recipe.changes, id) # 0
       THEN Set(recipe.changes[Find(recipe.changes, id)].before)
       ELSE Idle("undoChange")
  /\ UNCHANGED recipe

\* redoChange: (id) => { const change = changes.find(...);
\* if (change) state.set(change.after) }
redoChange(id) ==
  /\ Caller
  /\ IF Find(recipe.changes, id) # 0
       THEN Set(recipe.changes[Find(recipe.changes, id)].after)
       ELSE Idle("redoChange")
  /\ UNCHANGED recipe

\* the calling code records changes of one field each

SpecSelective ==
  /\ InitSelective
  /\ [][\/ \E id \in ChangeIds, f \in 0..2 : record(id, Modified(_state, f))
        \/ \E id \in ChangeIds : undoChange(id)
        \/ \E id \in ChangeIds : redoChange(id)
        \/ executeDispatch /\ Plain
        \/ dispatchDone /\ Plain]_vars

\* unnamed/part_002 (maps recipe), createStateMap: the container holds a Map,
\* whose content is the sequence of its <<key, value>> entries in insertion
\* order; `live` is the record of the calls made: for every key the value of
\* the last set that no delete followed, or 0
KeyNames == {"1", "2"}
MapValues == {1, 2}
Undefined == Prim("undefined", 0)
Bool(b) == Prim("boolean", IF b THEN 1 ELSE 0)

HasKey(c, key) == \E i \in 1..Len(c) : c[i][1] = key
\* Map.prototype.set: the entry of an existing key keeps its place
Put(c, key, value) ==
  IF HasKey(c, key)
    THEN [i \in 1..Len(c) |-> IF c[i][1] = key THEN <<key, value>> ELSE c[i]]
    ELSE Append(c, <<key, value>>)
\* Map.prototype.get
Lookup(c, key) ==
  IF HasKey(c, key)
    THEN Num(c[CHOOSE i \in 1..Len(c) : c[i][1] = key][2])
    ELSE Undefined

InitMap ==
  /\ \E initial \in {<<>>, << <<"1", 1>> >>} :
       /\ heap = [r \in Refs |-> IF r = 1 THEN [cls |-> "Map", c |-> initial] ELSE Free]
       /\ recipe = [name |-> "map",
                    live |-> [key \in KeyNames |->
                               IF HasKey(initial, key) THEN Lookup(initial, key).v ELSE 0]]
  /\ newSimpleState(heap, Ref(1), "unset")
  /\ InitRest

\* the objects only the finished calls referred to are collected
Collect ==
  /\ Caller
  /\ Allocated(heap) # RefOf(_state)
  /\ heap' = [r \in Refs |-> IF r \in RefOf(_state) THEN heap[r] ELSE Free]
  /\ last' = Step("collect", "none", NoVal)
  /\ UNCHANGED <<Config, Walk, _state, _subscribers, _nextId, _dispatchScheduled,
                 microtasks, removed, subCalls, lastOk, batch, delivered, clean,
                 flushed, atStart, recipe>>

\* state.set(change(new Map(state.get()))): the copy get() returns, the Map
\* made from it and changed, and the set of that Map
WriteChanged(sh, c) ==
  IF sh.err # "none"
    THEN /\ last' = Step("set", sh.err, NoVal)
         /\ Noted
         /\ UNCHANGED <<Config, Walk, _state, _subscribers, _nextId, _dispatchScheduled,
                        microtasks, heap, removed, subCalls, lastOk, batch>>
    ELSE LET h1 == Shared(sh)
             newMap == NewRef(h1)
         IN SetEffect([h1 EXCEPT ![newMap] = [cls |-> "Map", c |-> c]], Ref(newMap))

\* the content of the value state.get() returns
Got(sh) == IF sh.err = "none" THEN Shared(sh)[sh.val.r].c ELSE <<>>

\* set(key, value) changing the stored Map itself
MapSetInPlace(key, value) ==
  /\ Caller
  /\ Cardinality(FreeRefs(heap)) >= 2
  /\ heap' = [heap EXCEPT ![_state.r].c = Put(@, key, value)]
  /\ last' = Step("set", "none", NoVal)
  /\ Noted
  /\ recipe' = [recipe EXCEPT !.live[key] = value]
  /\ UNCHANGED <<Config, Walk, _state, _subscribers, _nextId, _dispatchScheduled,
                 microtasks, removed, subCalls, lastOk, batch>>

\* set(key, value)
MapSet(key, value) ==
  /\ Caller
  /\ Cardinality(FreeRefs(heap)) >= 2
  /\ LET sh == share IN WriteChanged(sh, Put(Got(sh), key, value))
  /\ recipe' = [recipe EXCEPT !.live[key] = value]

\* delete(key)
MapDelete(key) ==
  /\ Caller
  /\ Cardinality(FreeRefs(heap)) >= 2
  /\ LET sh == share IN WriteChanged(sh, SelectSeq(Got(sh), LAMBDA e : e[1] # key))
  /\ recipe' = [recipe EXCEPT !.live[key] = 0]

\* what a reading call computes from the copy state.get() returned
Computed(op, c, key) ==
  CASE op = "mapGet" -> Lookup(c, key)
    [] op = "mapHas" -> Bool(HasKey(c, key))
    [] op = "mapKeys" -> [i \in 1..Len(c) |-> c[i][1]]

\* a call that reads: state.get() and what is computed from the copy
Read(op, key) ==
  /\ Caller
  /\ CanShare
  /\ LET sh == share IN
     /\ heap' = Shared(sh)
     /\ last' = Step(op, sh.err, IF sh.err = "none" THEN Computed(op, Got(sh), key) ELSE NoVal)
  /\ Noted
  /\ UNCHANGED <<Config, Walk, _state, _subscribers, _nextId, _dispatchScheduled,
                 microtasks, removed, subCalls, lastOk, batch, recipe>>



SpecMap ==
  /\ InitMap
  /\ [][\/ \E key \in KeyNames, value \in MapValues : MapSet(key, value)
        \/ \E key \in KeyNames : MapDelete(key)
        \/ \E key \in KeyNames : Read("mapGet", key)
        \/ \E key \in KeyNames : Read("mapHas", key)
        \/ Read("mapKeys", "")
        \/ Collect
        \/ executeDispatch /\ Plain
        \/ dispatchDone /\ Plain]_vars

\* unnamed/part_002 (maps recipe), createCollection: `items` is the closure's
\* Map, the sequence of its entries [id, value, subscribers] in insertion
\* order, a callback being named by a string. The rest is the record of the
\* calls made: `active` are the pairs <<id, callback>> given to
\* subscribeToItem whose unsubscribe function has not been called since, and
\* `called` the invocations [cb, val] made by the last call.

HasItem(items, id) == \E i \in 1..Len(items) : items[i].id = id
ItemAt(items, id) == CHOOSE i \in 1..Len(items) : items[i].id = id

InitCollection ==
  /\ \E initial \in {<<>>, << <<"1", 1>> >>} :
       /\ heap = [r \in Refs |-> IF r = 1 THEN [cls |-> "Map", c |-> initial] ELSE Free]
       /\ recipe = [name |-> "collection",
                    items |-> [i \in 1..Len(initial) |->
                       [id |-> initial[i][1], value |-> initial[i][2], subscribers |-> {}]],
                    active |-> {}, called |-> {}]
  /\ newSimpleState(heap, Ref(1), "unset")
  /\ InitRest

\* state.set(newMap) with the Map made from `items`
Publish(items) ==
  /\ Caller
  /\ FreeRefs(heap) # {}
  /\ SetEffect([heap EXCEPT ![NewRef(heap)] = [cls |-> "Map", c |-> [i \in 1..Len(items) |-> <<items[i].id, items[i].value>>]]],
               Ref(NewRef(heap)))

\* set(id, value): an item that exists gets the value and its subscribers are
\* called with it; one that does not is made, with no subscribers
CollectionSet(id, value) ==
  LET items == recipe.items IN
  IF HasItem(items, id)
    THEN /\ Publish([items EXCEPT ![ItemAt(items, id)].value = value])
         /\ recipe' = [recipe EXCEPT
                         !.items[ItemAt(items, id)].value = value,
                         !.called = {[cb |-> c, val |-> value] :
                                       c \in items[ItemAt(items, id)].subscribers}]
    ELSE /\ Publish(Append(items, [id |-> id, value |-> value, subscribers |-> {}]))
         /\ recipe' = [recipe EXCEPT
                         !.items = Append(items, [id |-> id, value |-> value, subscribers |-> {}]),
                         !.called = {}]

\* delete(id): items.delete(id), and the new Map is set
CollectionDelete(id) ==
  LET items == SelectSeq(recipe.items, LAMBDA item : item.id # id) IN
  /\ Publish(items)
  /\ recipe' = [recipe EXCEPT !.items = items, !.called = {}]

\* subscribeToItem(id, callback): const item = items.get(id);
\* if (item) item.subscribers.add(callback); the function is returned
subscribeToItem(id, callback) ==
  /\ Caller
  /\ Idle("subscribeToItem")
  /\ recipe' = [recipe EXCEPT
                  !.items = IF HasItem(@, id)
                              THEN [@ EXCEPT ![ItemAt(@, id)].subscribers = @ \cup {callback}]
                              ELSE @,
                  !.active = @ \cup {<<id, callback>>},
                  !.called = {}]

\* the function subscribeToItem(id, callback) returned: const item =
\* items.get(id); if (item) item.subscribers.delete(callback)
unsubscribeItem(id, callback) ==
  /\ Caller
  /\ <<id, callback>> \in recipe.active
  /\ Idle("unsubscribeItem")
  /\ recipe' = [recipe EXCEPT
                  !.items = IF HasItem(@, id)
                              THEN [@ EXCEPT ![ItemAt(@, id)].subscribers = @ \ {callback}]
                              ELSE @,
                  !.active = @ \ {<<id, callback>>},
                  !.called = {}]


SpecCollection ==
  /\ InitCollection
  /\ [][\/ \E id \in KeyNames, value \in MapValues : CollectionSet(id, value)
        \/ \E id \in KeyNames : CollectionDelete(id)
        \/ \E id \in KeyNames, callback \in {"cb1"} : subscribeToItem(id, callback)
        \/ \E id \in KeyNames, callback \in {"cb1"} : unsubscribeItem(id, callback)
        \/ Collect
        \/ executeDispatch /\ Plain
        \/ dispatchDone /\ Plain]_vars

\* unnamed/part_003 (memoization recipe), createSelector: `cached`,
\* `lastValue` and `hasCache` are the closure's, `id` is the subscription
\* createSelector made (NoCb before it is called); the selector function is
\* pure, and its result is held as what it reads of the value. The rest is
\* the record of the calls made since the last set that returned normally:
\* `calls` invocations of the function createSelector returned and `runs`
\* runs of the selector function among them, each counted up to 2.
UpTo2(n) == IF n < 2 THEN n + 1 ELSE 2

\* the source holds a primitive, or an array as in the usage, copied or not
InitSelector ==
  /\ \/ \E p \in PrimValues :
          /\ heap = EmptyHeap
          /\ newSimpleState(heap, p, "unset")
     \/ \E oc \in {"unset", "false"} :
          /\ heap = OneObject("Array")
          /\ newSimpleState(heap, Ref(1), oc)
  /\ recipe = [name |-> "selector", id |-> NoCb, cached |-> NoView, lastValue |-> Undefined,
               hasCache |-> FALSE, calls |-> 0, runs |-> 0]
  /\ InitRest

\* createSelector(state, selector): state.subscribe((value) => { ... })
createSelector ==
  /\ Caller
  /\ recipe.id = NoCb
  /\ Subscribe
  /\ recipe' = [recipe EXCEPT !.id = _nextId]

\* the subscription's callback: lastValue = value; hasCache = false
SelectorCallback ==
  /\ cb = recipe.id
  /\ CallbackReturn
  /\ recipe' = [recipe EXCEPT !.lastValue = cbArg, !.hasCache = FALSE]

\* the returned function: const current = state.get(); if (hasCache &&
\* current === lastValue) return cached; cached = selector(current);
\* lastValue = current; hasCache = true; return cached
selector ==
  /\ Caller
  /\ recipe.id # NoCb
  /\ share.err = "none"
  /\ Get
  /\ IF recipe.hasCache /\ share.val = recipe.lastValue
       THEN recipe' = [recipe EXCEPT !.calls = UpTo2(@)]
       ELSE recipe' = [recipe EXCEPT
                         !.cached = View(heap', share.val),
                         !.lastValue = share.val,
                         !.hasCache = TRUE,
                         !.calls = UpTo2(@),
                         !.runs = UpTo2(@)]

\* a set of the source by the calling code
SourceSet ==
  /\ Caller
  /\ SetHeld
  /\ recipe' = IF last'.err = "none" THEN [recipe EXCEPT !.calls = 0, !.runs = 0] ELSE recipe

SpecSelector ==
  /\ InitSelector
  /\ [][\/ createSelector
        \/ selector
        \/ SourceSet
        \/ executeDispatch /\ Plain
        \/ notifySubscriber /\ Plain
        \/ SelectorCallback
        \/ dispatchDone /\ Plain]_vars

\* examples/recipes/computed-values.ts, computed (derive is the same code):
\* the container followed is `result`, the derived one; `src` are the source
\* containers, each with its value and its _dispatchScheduled flag, and with
\* the callback of computed as its one subscriber; `queue` is the microtask
\* queue of the program, in order: 0 for the dispatch of `result`, i for the
\* dispatch of the source i.
Sources == {1, 2}

\* the combining function: the sum of two numbers
computeFn(src) == Num(src[1].state.v + src[2].state.v)

\* set(input) of a source, a container of a number: the error thrown, the
\* value and the flag it leaves, and whether it has queued a microtask
setOf(c, input) ==
  IF input.ty # "number"
    THEN [err |-> "IncompatibleType", state |-> c.state, scheduled |-> c.scheduled, queued |-> FALSE]
  ELSE IF c.state # input
    THEN [err |-> "none", state |-> input, scheduled |-> TRUE, queued |-> ~c.scheduled]
  ELSE [err |-> "none", state |-> c.state, scheduled |-> c.scheduled, queued |-> FALSE]

\* const result = newSimpleState(computeFn(...states.map(s => s.get())))
InitComputed ==
  /\ \E a, b \in Contents :
       /\ recipe = [name |-> "computed",
                    src |-> <<[state |-> Num(a), scheduled |-> FALSE],
                              [state |-> Num(b), scheduled |-> FALSE]>>,
                    queue |-> <<>>]
       /\ heap = EmptyHeap
       /\ newSimpleState(heap, computeFn(recipe.src), "unset")
  /\ InitRest

\* the calling code sets a source
SourceWrite(i, input) ==
  /\ Caller
  /\ Idle("sourceSet")
  /\ LET res == setOf(recipe.src[i], input) IN
     recipe' = [recipe EXCEPT
                  !.src[i] = [state |-> res.state, scheduled |-> res.scheduled],
                  !.queue = IF res.queued THEN Append(@, i) ELSE @]

\* computed subscribing to its first source only
SourceFlushFirstOnly(i) ==
  /\ Caller
  /\ recipe.queue # <<>> /\ Head(recipe.queue) = i
  /\ IF i = 1 THEN Set(computeFn(recipe.src)) ELSE Idle("sourceDispatch")
  /\ recipe' = [recipe EXCEPT
                  !.src[i].scheduled = FALSE,
                  !.queue = IF microtasks' > microtasks THEN Append(Tail(@), 0) ELSE Tail(@)]

\* the microtask of the source i: its flag is cleared and its subscriber is
\* called: result.set(computeFn(...states.map(s => s.get())))
SourceFlush(i) ==
  /\ Caller
  /\ recipe.queue # <<>> /\ Head(recipe.queue) = i
  /\ Set(computeFn(recipe.src))
  /\ recipe' = [recipe EXCEPT
                  !.src[i].scheduled = FALSE,
                  !.queue = IF microtasks' > microtasks THEN Append(Tail(@), 0) ELSE Tail(@)]

\* the microtask of the derived container
ResultFlush ==
  /\ recipe.queue # <<>> /\ Head(recipe.queue) = 0
  /\ executeDispatch
  /\ recipe' = [recipe EXCEPT !.queue = Tail(@)]


SpecComputed ==
  /\ InitComputed
  /\ [][\/ \E i \in Sources, input \in {Num(0), Num(1), Prim("string", 0)} : SourceWrite(i, input)
        \/ \E i \in Sources : SourceFlush(i)
        \/ ResultFlush
        \/ dispatchDone /\ Plain]_vars

\* unnamed/part_004 (batching recipe), createDebouncedState: `timeout` is the
\* closure's, the id of a timer or 0 for null; `timers` are the timers of the
\* program that are set and have neither fired nor been cleared, each with its
\* id and the value its callback holds; ids are issued from 1 on. The rest is
\* the record of the calls made: `lastCall` is the value of the last call of
\* the debounced set, `burst` the calls made since a call last found no timer
\* pending, that call included, `fired` the timer callbacks run since that
\* call (counted up to 2), `wrote` the value the last of them
\* passed to state.set.
MaxTimers == 3

InitDebounced ==
  /\ \E p \in PrimValues :
       /\ heap = EmptyHeap
       /\ newSimpleState(heap, p, "unset")
  /\ recipe = [name |-> "debounced", timeout |-> 0, timers |-> {}, nextTimer |-> 1,
               lastCall |-> NoVal, burst |-> 0, fired |-> 0, wrote |-> NoVal]
  /\ InitRest

\* the debounced set without the clearTimeout
debouncedSetKeeps(value) ==
  /\ Caller
  /\ recipe.nextTimer <= MaxTimers
  /\ Idle("debouncedSet")
  /\ recipe' = [recipe EXCEPT
                  !.timers = @ \cup {[id |-> recipe.nextTimer, value |-> value]},
                  !.timeout = recipe.nextTimer,
                  !.nextTimer = @ + 1,
                  !.lastCall = value,
                  !.burst = IF recipe.timers = {} THEN 1 ELSE @ + 1,
                  !.fired = IF recipe.timers = {} THEN 0 ELSE @]

\* debouncedSet = (value) => { if (timeout) clearTimeout(timeout);
\* timeout = setTimeout(() => { ... }, delayMs) }
debouncedSet(value) ==
  /\ Caller
  /\ recipe.nextTimer <= MaxTimers
  /\ Idle("debouncedSet")
  /\ recipe' = [recipe EXCEPT
                  !.timers = (IF recipe.timeout # 0 THEN {t \in @ : t.id # recipe.timeout} ELSE @)
                               \cup {[id |-> recipe.nextTimer, value |-> value]},
                  !.timeout = recipe.nextTimer,
                  !.nextTimer = @ + 1,
                  !.lastCall = value,
                  !.burst = IF recipe.timers = {} THEN 1 ELSE @ + 1,
                  !.fired = IF recipe.timers = {} THEN 0 ELSE @]

\* a timer fires, once the code that was running and its microtasks are done:
\* () => { state.set(value); timeout = null }; a set that throws leaves
\* `timeout` as it is
DebounceFire(t) ==
  /\ Caller /\ microtasks = 0
  /\ t \in recipe.timers
  /\ Set(t.value)
  /\ recipe' = [recipe EXCEPT
                  !.timers = @ \ {t},
                  !.timeout = IF last'.err = "none" THEN 0 ELSE @,
                  !.fired = UpTo2(@),
                  !.wrote = t.value]

\* setImmediate: state.set.bind(state)
setImmediate(value) ==
  /\ Caller
  /\ Set(value)
  /\ UNCHANGED recipe


SpecDebounced ==
  /\ InitDebounced
  /\ [][\/ \E value \in PrimValues : debouncedSet(value)
        \/ \E t \in recipe.timers : DebounceFire(t)
        \/ \E value \in PrimValues : setImmediate(value)
        \/ executeDispatch /\ Plain
        \/ dispatchDone /\ Plain]_vars

\* unnamed/part_004 (batching recipe), createThrottledState: `lastUpdate`,
\* `pending` (null when there is none) and `timeout` (the timer set, or null)
\* are the closure's; `now` is the clock Date.now() reads, in units of half of
\* delayMs, which starts past delayMs; `deadline` is the time the timer is
\* set for. The rest is the record of the calls made: `prev` is the time of
\* the last state.set made through the throttled set (-1 when there is
\* none), `gap` the time between the last two of them (delayMs while there
\* are not two).
MaxTime == 6
Delay == 2

InitThrottled ==
  /\ \E initial \in UndoValues :
       /\ heap = EmptyHeap
       /\ newSimpleState(heap, initial, "unset")
  /\ recipe = [name |-> "throttled", now |-> Delay, lastUpdate |-> 0, pending |-> Null,
               timeout |-> FALSE, deadline |-> 0, prev |-> -1, gap |-> Delay]
  /\ InitRest

\* the record of a state.set made at the time `now`
Forwarded(r) ==
  [r EXCEPT !.prev = r.now, !.gap = IF r.prev < 0 THEN Delay ELSE r.now - r.prev]

\* throttledSet = (value) => { const now = Date.now(); if (now - lastUpdate
\* >= delayMs) { state.set(value); lastUpdate = now; pending = null } else {
\* pending = value; if (!timeout) timeout = setTimeout(..., delayMs -
\* timeSinceLastUpdate) } }
throttledSet(value) ==
  /\ Caller
  /\ IF recipe.now - recipe.lastUpdate >= Delay
       THEN /\ Set(value)
            /\ recipe' = Forwarded([recipe EXCEPT !.lastUpdate = recipe.now, !.pending = Null])
       ELSE /\ Idle("throttledSet")
            /\ recipe' = IF ~recipe.timeout
                           THEN [recipe EXCEPT
                                   !.pending = value,
                                   !.timeout = TRUE,
                                   !.deadline = recipe.now + (Delay - (recipe.now - recipe.lastUpdate))]
                           ELSE [recipe EXCEPT !.pending = value]

\* the timer fires, at its deadline or later, once the code that was running
\* and its microtasks are done: () => { if (pending !== null) {
\* state.set(pending); lastUpdate = Date.now(); pending = null } timeout = null }
ThrottleFire ==
  /\ Caller /\ microtasks = 0
  /\ recipe.timeout /\ recipe.now >= recipe.deadline
  /\ IF recipe.pending # Null
       THEN /\ Set(recipe.pending)
            /\ recipe' = Forwarded([recipe EXCEPT
                            !.lastUpdate = recipe.now, !.pending = Null,
                            !.timeout = FALSE, !.deadline = 0])
       ELSE /\ Idle("timer")
            /\ recipe' = [recipe EXCEPT !.timeout = FALSE, !.deadline = 0]

\* time passes
Tick ==
  /\ Caller
  /\ recipe.now < MaxTime
  /\ recipe' = [recipe EXCEPT !.now = @ + 1]
  /\ UNCHANGED <<Config, Walk, _state, _subscribers, _nextId, _dispatchScheduled,
                 microtasks, heap, removed, subCalls, lastOk, batch, delivered, clean,
                 flushed, atStart, last>>


SpecThrottled ==
  /\ InitThrottled
  /\ [][\/ \E value \in UndoValues : throttledSet(value)
        \/ ThrottleFire
        \/ Tick
        \/ executeDispatch /\ Plain
        \/ dispatchDone /\ Plain]_vars

\* examples/recipes/defensive-subscribers.ts, subscribeWithErrorBoundary:
\* `wrapped` are the ids of the subscriptions made through it, `errors` the
\* calls of onError since the last dispatch began, each with the id of the
\* subscription and the value onError was given
InitBoundary ==
  /\ \E oc \in OptValues, p \in PrimValues :
       /\ heap = EmptyHeap
       /\ newSimpleState(heap, p, oc)
  /\ recipe = [name |-> "boundary", wrapped |-> {}, errors |-> <<>>]
  /\ InitRest

\* the calls of onError are kept as long as the record of the dispatch is
Cleared == recipe' = [recipe EXCEPT !.errors = <<>>]
OnError == recipe' = [recipe EXCEPT !.errors = Append(@, [id |-> cb, val |-> cbArg])]

\* state.subscribe((value) => { try { callback(value) } catch (error) {
\* onError(error, value) } })
subscribeWithErrorBoundary ==
  /\ Caller
  /\ Subscribe
  /\ recipe' = [recipe EXCEPT !.wrapped = @ \cup {_nextId}, !.errors = <<>>]

\* the wrapper without its try and catch
CaughtThrowEscapes ==
  /\ cb \in recipe.wrapped
  /\ CallbackThrow
  /\ UNCHANGED recipe

\* callback(value) throws, onError(error, value) returns: the wrapper returns
CaughtThrow ==
  /\ cb \in recipe.wrapped
  /\ CallbackReturn
  /\ OnError

\* callback(value) throws, onError(error, value) throws: the wrapper throws
OnErrorThrows ==
  /\ cb \in recipe.wrapped
  /\ CallbackThrow
  /\ OnError

\* the calling code sets and subscribes; the callbacks do not call the
\* container, and only those behind the wrapper throw
SpecBoundary ==
  /\ InitBoundary
  /\ [][\/ Caller /\ SetHeld /\ Cleared
        \/ Caller /\ Subscribe /\ Cleared
        \/ subscribeWithErrorBoundary
        \/ executeDispatch /\ Cleared
        \/ notifySubscriber /\ Plain
        \/ CallbackReturn /\ Plain
        \/ CaughtThrow
        \/ OnErrorThrows
        \/ dispatchDone /\ Plain]_vars

\* the containers whose captured typeof is "object": the initial value is an
\* object of one of the six classes that are not functions, or null
InitKinds ==
  /\ \/ \E cls \in FreshClasses \ {"Function"} :
          /\ heap = OneObject(cls)
          /\ newSimpleState(heap, Ref(1), "unset")
     \/ /\ heap = EmptyHeap
        /\ newSimpleState(heap, Null, "unset")
  /\ recipe = NoRecipe
  /\ InitRest

\* the calling code sets and subscribes; the callbacks return
SpecKinds ==
  /\ InitKinds
  /\ [][\/ Caller /\ SetHeld /\ Plain
        \/ Caller /\ (\E cls \in FreshClasses : SetNew(cls)) /\ Plain
        \/ Caller /\ Subscribe /\ Plain
        \/ executeDispatch /\ Plain
        \/ notifySubscriber /\ Plain
        \/ CallbackReturn /\ Plain
        \/ dispatchDone /\ Plain]_vars


\* a container whose callbacks call it and throw, and a container of an object
\* that structuredClone refuses; `interrupted` records that a dispatch was
\* ended by a callback that threw or by a share() that threw
InitFault ==
  /\ \/ \E p \in PrimValues :
          /\ heap = EmptyHeap
          /\ newSimpleState(heap, p, "unset")
     \/ /\ heap = OneObject("WeakMap")
        /\ newSimpleState(heap, Ref(1), "unset")
  /\ recipe = [name |-> "fault", interrupted |-> FALSE]
  /\ InitRest

SpecFault ==
  /\ InitFault
  /\ [][\/ SetHeld /\ Plain
        \/ SetNew("WeakMap") /\ Plain
        \/ Subscribe /\ Plain
        \/ (\E id \in UnsubInputs : Unsubscribe(id)) /\ Plain
        \/ executeDispatch /\ Plain
        \/ notifySubscriber /\ recipe' = [recipe EXCEPT !.interrupted = @ \/ last'.err # "none"]
        \/ CallbackReturn /\ Plain
        \/ CallbackThrow /\ recipe' = [recipe EXCEPT !.interrupted = TRUE]
        \/ dispatchDone /\ Plain]_vars


\* examples/recipes/defensive-subscribers.ts, subscribeWithSelector:
\* `previousSelected` is the closure's, `id` the subscription (NoCb before the
\* call) and `sel` the selector passed: "self" returns the value it is given,
\* "field" the field of an object (undefined when the value is no object).
\* The rest is the record of the source notifications: how many there were
\* (up to 2), what the selector returned at the last one (`proj`), whether the
\* downstream callback was invoked at the last one (`called`), the value of
\* its last invocation (`given`), and whether two invocations in succession
\* had the same value (`twice`).
InitWithSelector ==
  /\ \/ /\ heap = EmptyHeap
        /\ newSimpleState(heap, Num(0), "unset")
     \/ \E oc \in {"unset", "false"} :
          /\ heap = OneObject("Object")
          /\ newSimpleState(heap, Ref(1), oc)
  /\ \E sel \in {"self", "field"} :
       recipe = [name |-> "withSelector", sel |-> sel, id |-> NoCb,
                 previousSelected |-> Undefined, seen |-> 0, proj |-> Undefined,
                 called |-> FALSE, given |-> NoVal, twice |-> FALSE]
  /\ InitRest

\* return state.subscribe((value) => { ... })
subscribeWithSelector ==
  /\ Caller
  /\ recipe.id = NoCb
  /\ Subscribe
  /\ recipe' = [recipe EXCEPT !.id = _nextId]

\* the subscription's callback without the assignment to previousSelected
WithSelectorCallbackStale ==
  /\ cb = recipe.id
  /\ LET selected == IF recipe.sel = "self" THEN cbArg
                     ELSE IF cbArg.r # 0 THEN Num(heap[cbArg.r].c) ELSE Undefined
         changed == selected # recipe.previousSelected
     IN
     /\ recipe' = [recipe EXCEPT
          !.seen = UpTo2(@),
          !.proj = selected,
          !.called = changed,
          !.given = IF changed THEN selected ELSE @,
          !.twice = @ \/ (changed /\ selected = recipe.given)]
     /\ CallbackReturn \/ (changed /\ CallbackThrow)

\* the subscription's callback: const selected = selector(value); if (selected
\* !== previousSelected) { previousSelected = selected; callback(selected) };
\* the downstream callback returns or throws
WithSelectorCallback ==
  /\ cb = recipe.id
  /\ LET selected == IF recipe.sel = "self" THEN cbArg
                     ELSE IF cbArg.r # 0 THEN Num(heap[cbArg.r].c) ELSE Undefined
         changed == selected # recipe.previousSelected
     IN
     /\ recipe' = [recipe EXCEPT
          !.previousSelected = IF changed THEN selected ELSE @,
          !.seen = UpTo2(@),
          !.proj = selected,
          !.called = changed,
          !.given = IF changed THEN selected ELSE @,
          !.twice = @ \/ (changed /\ selected = recipe.given)]
     /\ CallbackReturn \/ (changed /\ CallbackThrow)

\* the calling code sets and changes the objects it holds
SpecWithSelector ==
  /\ InitWithSelector
  /\ [][\/ subscribeWithSelector
        \/ Caller /\ SetHeld /\ Plain
        \/ Caller /\ SetNew("Object") /\ Plain
        \/ (\E r \in Refs, c \in Contents : Caller /\ Mutate(r, c)) /\ Plain
        \/ executeDispatch /\ Plain
        \/ notifySubscriber /\ Plain
        \/ WithSelectorCallback
        \/ dispatchDone /\ Plain]_vars


\* examples/recipes/persistence.ts, createOptimisticStack: `snapshots` is the
\* closure's array. The rest is the record of the calls: what the container
\* held (as a reader sees it) when the first snapshot of the stack was taken
\* (`before`), and how many snapshots the last rollback unwound (`unwound`).
\* The container holds a number, or a plain object under either clone option.
InitOptimisticStack ==
  /\ \/ /\ heap = EmptyHeap
        /\ newSimpleState(heap, Num(0), "unset")
     \/ \E oc \in {"unset", "false"} :
          /\ heap = OneObject("Object")
          /\ newSimpleState(heap, Ref(1), oc)
  /\ recipe = [name |-> "optimisticStack", snapshots |-> <<>>, before |-> NoView, unwound |-> 0]
  /\ InitRest

\* optimistic(newValue) { snapshots.push(state.get()); state.set(newValue) }
\* (a value of another type is passed where get() makes no copy)
optimistic(newValue) ==
  /\ Caller
  /\ Len(recipe.snapshots) < MaxWrites
  /\ typeof(heap, newValue) = _type \/ ~share.copy
  /\ CanShare
  /\ SetEffect(Shared(share), newValue)
  /\ recipe' = [recipe EXCEPT
                  !.snapshots = Append(@, share.val),
                  !.before = IF recipe.snapshots = <<>> THEN View(heap, _state) ELSE @,
                  !.unwound = 0]

\* commit() { snapshots.length = 0 }
commit ==
  /\ Caller
  /\ Idle("commit")
  /\ recipe' = [recipe EXCEPT !.snapshots = <<>>, !.before = NoView, !.unwound = 0]

\* rollback() popping one snapshot only
rollbackOne ==
  /\ Caller
  /\ IF recipe.snapshots # <<>>
       THEN LET n == Len(recipe.snapshots)
                lowest == n
                prev(i) == IF i = n THEN _state ELSE recipe.snapshots[i + 1]
                changes == Cardinality({i \in lowest..n : recipe.snapshots[i] # prev(i)})
                res == IF changes > 0 THEN Written(recipe.snapshots[lowest]) ELSE Kept("none")
            IN
            /\ _state' = res.state
            /\ _dispatchScheduled' = res.scheduled
            /\ microtasks' = res.queued
            /\ lastOk' = recipe.snapshots[lowest]
            /\ batch' = IF batch + changes < 2 THEN batch + changes ELSE 2
            /\ last' = Step("rollback", "none", NoVal)
            /\ Noted
            /\ UNCHANGED <<Config, Walk, _subscribers, _nextId, removed, subCalls, heap>>
       ELSE Idle("rollback")
  /\ recipe' = [recipe EXCEPT !.snapshots = <<>>, !.before = NoView, !.unwound = Len(recipe.snapshots)]

\* rollback() { while (snapshots.length > 0) { state.set(snapshots.pop()) } }:
\* the sets are made with the snapshots from the last one to the first, each
\* one changes the value when its input is not the value the one before it
\* left, and the first that does schedules the dispatch
rollback ==
  /\ Caller
  /\ IF recipe.snapshots # <<>>
       THEN LET n == Len(recipe.snapshots)
                lowest == 1
                prev(i) == IF i = n THEN _state ELSE recipe.snapshots[i + 1]
                changes == Cardinality({i \in lowest..n : recipe.snapshots[i] # prev(i)})
                res == IF changes > 0 THEN Written(recipe.snapshots[lowest]) ELSE Kept("none")
            IN
            /\ _state' = res.state
            /\ _dispatchScheduled' = res.scheduled
            /\ microtasks' = res.queued
            /\ lastOk' = recipe.snapshots[lowest]
            /\ batch' = IF batch + changes < 2 THEN batch + changes ELSE 2
            /\ last' = Step("rollback", "none", NoVal)
            /\ Noted
            /\ UNCHANGED <<Config, Walk, _subscribers, _nextId, removed, subCalls, heap>>
       ELSE Idle("rollback")
  /\ recipe' = [recipe EXCEPT !.snapshots = <<>>, !.before = NoView, !.unwound = Len(recipe.snapshots)]

\* the values passed: numbers and a string, or null and the objects there are
SpecOptimisticStack ==
  /\ InitOptimisticStack
  /\ [][\/ \E newValue \in UndoValues \cup {Prim("string", 0), Null}
                             \cup {Ref(r) : r \in Allocated(heap)} : optimistic(newValue)
        \/ Caller /\ SetNew("Object") /\ Plain
        \/ commit
        \/ rollback
        \/ executeDispatch /\ Plain
        \/ dispatchDone /\ Plain]_vars


\* examples/recipes/persistence.ts, createOptimisticQueue: `queue` (entries
\* { id, retries, maxRetries }; the operation is the caller's) and
\* `processing` are the closure's; `pc` is where processQueue() stands: "idle"
\* when it is not running, "attempt" at `await update.operation()`, "backoff"
\* at the await of the timer. The caller names the entries 1, 2, ...; `log`
\* records of each how often its operation was started (`n`), the limit it
\* was enqueued with (`max`) and what became of it (`out`: "none" before it
\* is enqueued, then "queued", then "done" when it was removed after an
\* attempt that succeeded, "failed" when it was removed after its last retry)
\* and whether it was enqueued while processQueue() was running (`late`).
MaxEntries == 3
MaxTries == 2
QueueValues == {Num(1), Prim("string", 0)}

InitQueue ==
  /\ heap = EmptyHeap
  /\ newSimpleState(heap, Num(0), "unset")
  /\ recipe = [name |-> "queue", queue |-> <<>>, processing |-> FALSE, pc |-> "idle",
               log |-> [id \in 1..MaxEntries |->
                         [n |-> 0, max |-> 0, out |-> "none", late |-> FALSE]]]
  /\ InitRest

\* the loop of processQueue() that leaves `processing` set when the queue is empty
LoopStuck(r) ==
  IF r.queue # <<>>
    THEN [r EXCEPT !.pc = "attempt", !.log[r.queue[1].id].n = @ + 1]
    ELSE [r EXCEPT !.pc = "idle"]

\* while (queue.length > 0) { const update = queue[0]; ... await
\* update.operation() ... } processing = false: the head's operation is
\* started, or the loop is left
Loop(r) ==
  IF r.queue # <<>>
    THEN [r EXCEPT !.pc = "attempt", !.log[r.queue[1].id].n = @ + 1]
    ELSE [r EXCEPT !.pc = "idle", !.processing = FALSE]

\* enqueue(id, optimisticValue, operation, maxRetries): state.set(optimisticValue);
\* queue.push({ id, operation, retries: 0, maxRetries }); processQueue(), which
\* returns at once when `processing` is set
enqueue(id, optimisticValue, maxRetries) ==
  /\ Caller
  /\ recipe.log[id].out = "none"
  /\ \A j \in 1..(id - 1) : recipe.log[j].out # "none"
  /\ Set(optimisticValue)
  /\ LET pushed == [recipe EXCEPT
                      !.queue = Append(@, [id |-> id, retries |-> 0, maxRetries |-> maxRetries]),
                      !.log[id] = [n |-> 0, max |-> maxRetries, out |-> "queued",
                                    late |-> recipe.processing]]
     IN
     recipe' = IF set(heap, optimisticValue).err # "none" THEN recipe
               ELSE IF recipe.processing THEN pushed
               ELSE Loop([pushed EXCEPT !.processing = TRUE])

\* the attempt with the test `update.retries > update.maxRetries`
SettleOffByOne(result) ==
  /\ Caller
  /\ recipe.pc = "attempt"
  /\ IF result = NoVal THEN Idle("rejected") ELSE Set(result)
  /\ LET update == recipe.queue[1]
         ok == result # NoVal /\ set(heap, result).err = "none"
     IN
     recipe' =
       IF ok
         THEN Loop([recipe EXCEPT !.queue = Tail(@), !.log[update.id].out = "done"])
       ELSE IF update.retries + 1 > update.maxRetries
         THEN Loop([recipe EXCEPT !.queue = Tail(@), !.log[update.id].out = "failed"])
       ELSE [recipe EXCEPT !.queue[1].retries = @ + 1, !.pc = "backoff"]

\* the awaited operation settles: it rejects (result is NoVal) or resolves
\* with result. try { const result = await update.operation();
\* state.set(result); queue.shift() } catch { update.retries++; if
\* (update.retries >= update.maxRetries) queue.shift(); else await the timer }
\* and the loop goes on. A set that throws is caught like a rejection.
Settle(result) ==
  /\ Caller
  /\ recipe.pc = "attempt"
  /\ IF result = NoVal THEN Idle("rejected") ELSE Set(result)
  /\ LET update == recipe.queue[1]
         ok == result # NoVal /\ set(heap, result).err = "none"
     IN
     recipe' =
       IF ok
         THEN Loop([recipe EXCEPT !.queue = Tail(@), !.log[update.id].out = "done"])
       ELSE IF update.retries + 1 >= update.maxRetries
         THEN Loop([recipe EXCEPT !.queue = Tail(@), !.log[update.id].out = "failed"])
       ELSE [recipe EXCEPT !.queue[1].retries = @ + 1, !.pc = "backoff"]

\* the timer of the backoff fires, and the loop goes on with the same head
BackoffDone ==
  /\ Caller
  /\ microtasks = 0
  /\ recipe.pc = "backoff"
  /\ Idle("backoff")
  /\ recipe' = Loop(recipe)

SpecQueue ==
  /\ InitQueue
  /\ [][\/ \E id \in 1..MaxEntries, optimisticValue \in QueueValues, maxRetries \in 1..MaxTries :
             enqueue(id, optimisticValue, maxRetries)
        \/ \E result \in QueueValues \cup {NoVal} : Settle(result)
        \/ BackoffDone
        \/ executeDispatch /\ Plain
        \/ dispatchDone /\ Plain]_vars

\* every operation settles and every timer fires; the event loop runs the
\* queued microtask
SpecQueueLive ==
  /\ SpecQueue
  /\ WF_vars(\E result \in QueueValues \cup {NoVal} : Settle(result))
  /\ WF_vars(BackoffDone)
  /\ WF_vars(executeDispatch /\ Plain)
  /\ WF_vars(dispatchDone /\ Plain)


\* examples/recipes/persistence.ts, createDebouncedOptimistic: `timeoutId` (0
\* for undefined) and `snapshot` (NoVal for null) are the closure's; `timers`
\* are the timers that are set and have neither fired nor been cleared, each
\* with its id and the newValue its callback holds; `saves` are the calls of
\* saveOperation that have not settled, each under the id of the timer that
\* started it. The rest is the record of the calls made: `lastCall` is the
\* value of the last update call, `settled` the ids of the timers whose save
\* has settled. The container holds numbers, which set() never rejects.
InitDebouncedOptimistic ==
  /\ heap = EmptyHeap
  /\ newSimpleState(heap, Num(0), "unset")
  /\ recipe = [name |-> "debouncedOptimistic", timeoutId |-> 0, snapshot |-> NoVal,
               timers |-> {}, nextTimer |-> 1, saves |-> {},
               lastCall |-> NoVal, settled |-> {}]
  /\ InitRest

\* update(newValue) { if (snapshot === null) snapshot = state.get();
\* state.set(newValue); if (timeoutId !== undefined) clearTimeout(timeoutId);
\* timeoutId = setTimeout(async () => { ... }, debounceMs) }; a set that
\* throws leaves the timers as they are
update(newValue) ==
  /\ Caller
  /\ recipe.nextTimer <= MaxTimers
  /\ Set(newValue)
  /\ LET taken == [recipe EXCEPT !.snapshot = IF @ = NoVal THEN _state ELSE @]
     IN
     recipe' =
       IF set(heap, newValue).err # "none" THEN taken
       ELSE [taken EXCEPT
               !.timers = {t \in @ : t.id # recipe.timeoutId}
                            \cup {[id |-> recipe.nextTimer, value |-> newValue]},
               !.timeoutId = recipe.nextTimer,
               !.nextTimer = @ + 1,
               !.lastCall = newValue]

\* the timer fires, once the code that was running and its microtasks are
\* done: saveOperation(newValue) is called and awaited
SaveStart(t) ==
  /\ Caller /\ microtasks = 0
  /\ t \in recipe.timers
  /\ Idle("saveOperation")
  /\ recipe' = [recipe EXCEPT !.timers = @ \ {t}, !.saves = @ \cup {t}]

\* the awaited saveOperation settles: it rejects (saved is NoVal) or resolves
\* with saved. try { state.set(saved); snapshot = null } catch { if (snapshot
\* !== null) { state.set(snapshot); snapshot = null } }
SaveSettle(s, saved) ==
  /\ Caller
  /\ s \in recipe.saves
  /\ IF saved # NoVal THEN Set(saved)
     ELSE IF recipe.snapshot # NoVal THEN Set(recipe.snapshot)
     ELSE Idle("rejected")
  /\ recipe' = [recipe EXCEPT !.saves = @ \ {s}, !.snapshot = NoVal,
                              !.settled = @ \cup {s.id}]

SpecDebouncedOptimistic ==
  /\ InitDebouncedOptimistic
  /\ [][\/ \E newValue \in {Num(1), Num(2)} : update(newValue)
        \/ \E t \in recipe.timers : SaveStart(t)
        \/ \E s \in recipe.saves, saved \in {Num(1), Num(2), NoVal} : SaveSettle(s, saved)
        \/ executeDispatch /\ Plain
        \/ dispatchDone /\ Plain]_vars


\* examples/recipes/persistence.ts, createSyncedState with two contexts on one
\* key: the container followed is the one of the first context; `other` is
\* the container of the second, with its value and its _dispatchScheduled
\* flag; `storage` is the text stored under the key, "" while the key is
\* absent (getItem gives null, which the code tests like the empty text);
\* `events` are the storage-change notifications raised and not delivered
\* yet, for each context in order, each one the newValue it carries. `id` is
\* the id of the first context's subscription. The rest is the record of the
\* calls made: `writes` counts the local writes, `echo` the notifications
\* that changed the value of the container they were applied to (counted up
\* to 2). The containers hold numbers.
stringify(value) ==
  CASE value = Num(0) -> "0" [] value = Num(1) -> "1" [] value = Num(2) -> "2"

parse(text) ==
  CASE text = "0" -> Num(0) [] text = "1" -> Num(1) [] text = "2" -> Num(2)

\* const stored = localStorage.getItem(key); const initialValue = stored ?
\* JSON.parse(stored) : initial; const state = newSimpleState(initialValue),
\* in both contexts
InitSynced ==
  /\ \E stored \in {"", "1"} :
       LET initialValue == IF stored # "" THEN parse(stored) ELSE Num(0) IN
       /\ heap = EmptyHeap
       /\ newSimpleState(heap, initialValue, "unset")
       /\ recipe = [name |-> "synced", id |-> NoCb, storage |-> stored,
                    other |-> [state |-> initialValue, scheduled |-> FALSE],
                    events |-> <<(<<>>), (<<>>)>>, writes |-> 0, echo |-> 0]
  /\ InitRest

\* state.subscribe((value) => { localStorage.setItem(key, ...) }), the end of
\* createSyncedState in the first context
createSyncedState ==
  /\ Caller
  /\ recipe.id = NoCb
  /\ Subscribe
  /\ recipe' = [recipe EXCEPT !.id = _nextId]

\* the calling code of the context i sets its container
LocalWrite(i, input) ==
  /\ Caller
  /\ recipe.id # NoCb
  /\ recipe.writes < MaxWrites
  /\ IF i = 1 THEN Set(input) ELSE Idle("otherSet")
  /\ LET res == setOf(recipe.other, input) IN
     recipe' = [recipe EXCEPT
                  !.other = IF i = 1 THEN @ ELSE [state |-> res.state, scheduled |-> res.scheduled],
                  !.writes = @ + 1]

\* the subscriber of the first context: localStorage.setItem(key,
\* JSON.stringify(value)); a storage-change notification is raised in the
\* other context when the stored text changes
SyncedCallback ==
  /\ cb = recipe.id
  /\ CallbackReturn
  /\ LET text == stringify(cbArg) IN
     recipe' = [recipe EXCEPT
                  !.storage = text,
                  !.events[2] = IF text # recipe.storage THEN Append(@, text) ELSE @]

\* the microtask of the second context's container: its flag is cleared and
\* its subscriber stores the text of its value
OtherFlush ==
  /\ Caller
  /\ recipe.other.scheduled
  /\ Idle("otherDispatch")
  /\ LET text == stringify(recipe.other.state) IN
     recipe' = [recipe EXCEPT
                  !.other.scheduled = FALSE,
                  !.storage = text,
                  !.events[1] = IF text # recipe.storage THEN Append(@, text) ELSE @]

\* the context i handles a storage-change notification, once the code that
\* was running and its microtasks are done: if (event.key === key &&
\* event.newValue) state.set(JSON.parse(event.newValue))
Deliver(i) ==
  /\ Caller
  /\ recipe.events[i] # <<>>
  /\ IF i = 1 THEN microtasks = 0 ELSE ~recipe.other.scheduled
  /\ LET newValue == Head(recipe.events[i])
         res == setOf(recipe.other, parse(newValue))
         changed == IF i = 1 THEN parse(newValue) # _state
                    ELSE parse(newValue) # recipe.other.state
     IN
     /\ IF i = 1 /\ newValue # "" THEN Set(parse(newValue)) ELSE Idle("storage")
     /\ recipe' = [recipe EXCEPT
                     !.events[i] = Tail(@),
                     !.other = IF i = 2 /\ newValue # ""
                                 THEN [state |-> res.state, scheduled |-> res.scheduled]
                                 ELSE @,
                     !.echo = IF newValue # "" /\ changed THEN UpTo2(@) ELSE @]

\* every microtask runs and every notification is delivered
SpecSynced ==
  /\ InitSynced
  /\ [][\/ createSyncedState
        \/ \E i \in {1, 2}, input \in {Num(1), Num(2)} : LocalWrite(i, input)
        \/ executeDispatch /\ Plain
        \/ notifySubscriber /\ Plain
        \/ SyncedCallback
        \/ dispatchDone /\ Plain
        \/ OtherFlush
        \/ \E i \in {1, 2} : Deliver(i)]_vars
  /\ WF_vars(createSyncedState)
  /\ WF_vars(executeDispatch /\ Plain)
  /\ WF_vars(notifySubscriber /\ Plain)
  /\ WF_vars(SyncedCallback)
  /\ WF_vars(dispatchDone /\ Plain)
  /\ WF_vars(OtherFlush)
  /\ WF_vars(Deliver(1))
  /\ WF_vars(Deliver(2))


\* ------------------------------------------------------------- properties
Ids(d) == [i \in 1..Len(d) |-> d[i].id]
Ascending(q) == \A i, j \in 1..Len(q) : i < j => q[i] < q[j]
\* a dispatch has just run to its end, undisturbed by its callbacks
Dispatched == last.op = "dispatched" /\ clean
\* what a call must leave alone when it throws
Untouched == UNCHANGED <<_state, _subscribers, _nextId, _dispatchScheduled, microtasks, heap>>
\* the values a caller can pass to set without making a new object
Inputs == PrimValues \cup {Ref(r) : r \in Refs}
\* the composite kind of an object of class cls
KindOf(cls) ==
  CASE cls = "Function" -> "function"
    [] cls = "Array" -> "array"
    [] cls = "Map" -> "map"
    [] cls = "Set" -> "set"
    [] cls = "Date" -> "date"
    [] cls = "RegExp" -> "regex"
    [] OTHER -> "object"
\* the stored value is an object structuredClone can copy
Copyable == _state.r # 0 /\ heap[_state.r].cls \notin {"Function", "WeakMap"}

C2_IdentityNoOp ==
  [][(last'.op = "set" /\ Set(_state)) =>
       /\ last'.err = "none"
       /\ UNCHANGED <<_state, _subscribers, _dispatchScheduled, microtasks, heap>>]_vars

\* set has been called with the stored object while nothing was pending
C2_Witness ==
  /\ last.op = "set" /\ last.err = "none"
  /\ lastOk = _state /\ _state.r # 0
  /\ ~_dispatchScheduled /\ microtasks = 0
  /\ _subscribers # <<>>

\* C3: set with another object of the same class and content as the stored
\* one is accepted: the input becomes the value and a dispatch is pending;
\* that dispatch invokes every subscriber.
C3_ByReference ==
  /\ [][(/\ last'.op = "set" /\ _state.r # 0
          /\ heap[_state.r].c = 0 /\ SetNew(heap[_state.r].cls)) =>
            /\ last'.err = "none"
            /\ _state' = Ref(NewRef(heap))
            /\ _state' # _state
            /\ View(heap', _state') = View(heap, _state)
            /\ _dispatchScheduled' /\ microtasks' = 1]_vars
  /\ [][last'.op = "set" => \A input \in Inputs :
          (/\ _state.r # 0 /\ input.r # 0 /\ input # _state
           /\ View(heap, input) = View(heap, _state)
           /\ ~(/\ last'.err = "none"
                /\ _state' = input
                /\ _dispatchScheduled' /\ microtasks' = 1))
          => ~Set(input)]_vars
  /\ [](last.op = "dispatched" => Ids(delivered) = _subscribers)

\* a subscriber has been invoked for an object that replaced an equal one
C3_Witness ==
  /\ last.op = "dispatched" /\ flushed = 1 /\ delivered # <<>>
  /\ _state = Ref(2) /\ heap[2] = heap[1]
  /\ delivered[1].of = Ref(2)

\* C4: the registry keeps the order of the subscribe calls, a dispatch
\* invokes in that order, and an undisturbed dispatch invokes exactly the
\* subscribers that remain, in that order.
C4_DeliveryOrder ==
  /\ Ascending(_subscribers)
  /\ Ascending(Ids(delivered))
  /\ Dispatched => Ids(delivered) = _subscribers

\* the first and the third subscriber have been invoked, the second was removed
C4_Witness == Dispatched /\ removed = {1} /\ Ids(delivered) = <<0, 2>>

\* C5: no callback is invoked once its unsubscribe has returned, and an
\* undisturbed dispatch invokes every subscriber that was not unsubscribed.
C5_UnsubscribeIsPermanent ==
  /\ (last.op = "notify" /\ last.err = "none") => last.ret.v \notin removed
  /\ clean => \A i \in 1..Len(delivered) : delivered[i].id \notin removed
  /\ Dispatched => Range(Ids(delivered)) = (0..(subCalls - 1)) \ removed

\* a dispatch has run after the first subscriber was unsubscribed
C5_Witness == Dispatched /\ 0 \in removed /\ delivered # <<>>

\* C6: unsubscribe throws InvalidUnsubscribeInput for an id that is no
\* number and InvalidSubscriptionId for a number that was never issued or
\* was unsubscribed before; a call that throws changes nothing.
C6_UnsubscribeValidation ==
  [][last'.op = "unsubscribe" =>
       /\ last'.err # "none" => Untouched /\ removed' = removed
       /\ \A id \in UnsubInputs :
            /\ (id.ty # "number" /\ last'.err # "InvalidUnsubscribeInput") => ~Unsubscribe(id)
            /\ (id.ty = "number" /\ (id.v >= subCalls \/ id.v \in removed)
                  /\ last'.err # "InvalidSubscriptionId") => ~Unsubscribe(id)]_vars

\* an unsubscribe has thrown InvalidSubscriptionId after every id issued was removed
C6_Witness ==
  /\ last.op = "unsubscribe" /\ last.err = "InvalidSubscriptionId"
  /\ subCalls > 0 /\ removed = 0..(subCalls - 1)

C8_AsClaimed ==
  /\ [][(last'.op = "set" /\ last'.err = "IncompatibleCompositeType") => Untouched]_vars
  /\ [][(last'.op = "set" /\ last'.err # "IncompatibleCompositeType") =>
          \A cls \in Classes : KindOf(cls) # _mutableType => ~SetNew(cls)]_vars

\* C8: set with an object of another composite kind than the captured one
\* throws and changes nothing; the error is IncompatibleCompositeType when
\* the typeof of the input is the captured one, and IncompatibleType when it
\* is not, which is when one of the two kinds is function.
C8_KindRejection ==
  /\ [][(last'.op = "set" /\ last'.err # "none") => Untouched /\ lastOk' = lastOk]_vars
  /\ [][last'.op = "set" => \A cls \in Classes :
          (KindOf(cls) # _mutableType
             /\ last'.err # (IF (cls = "Function") = (_type = "function")
                               THEN "IncompatibleCompositeType" ELSE "IncompatibleType"))
          => ~SetNew(cls)]_vars

\* a set has thrown IncompatibleCompositeType on a container of an array
C8_Witness ==
  /\ last.op = "set" /\ last.err = "IncompatibleCompositeType"
  /\ _mutableType = "array" /\ ~_dispatchScheduled

\* C9: the k-th subscribe call returns k - 1, and the counter is the number
\* of subscribe calls made, whatever was unsubscribed.
C9_Identifiers ==
  /\ _nextId = subCalls
  /\ last.op = "subscribe" => last.ret = Num(subCalls - 1)
  /\ removed \subseteq 0..(subCalls - 1)

\* the third subscribe call has returned 2 after an unsubscribe
C9_Witness == last.op = "subscribe" /\ last.ret = Num(2) /\ removed # {}

C11_DeliveryIsolation ==
  /\ [][(last'.op = "notify" /\ last'.err = "none" /\ _shouldClone /\ Copyable) =>
          /\ cbArg'.r \in FreeRefs(heap)
          /\ cbArg' # _state
          /\ \A i \in 1..Len(delivered) : delivered[i].val # cbArg'
          /\ heap'[cbArg'.r] = heap[_state.r]
          /\ \A r \in Allocated(heap) : heap'[r] = heap[r]]_vars
  /\ [][(last'.op = "mutate" /\ cb # NoCb /\ _shouldClone /\ Copyable) =>
          View(heap', _state') = View(heap, _state)]_vars
  /\ [](\A i \in 1..Len(delivered) :
          (_shouldClone /\ delivered[i].of.r # 0 /\ Clonable(heap, delivered[i].of)) =>
            /\ delivered[i].val # delivered[i].of
            /\ \A j \in 1..Len(delivered) : i # j => delivered[i].val # delivered[j].val)

\* the second subscriber has been given a copy equal to the stored object
\* after the first one changed its own
C11_Witness ==
  /\ _shouldClone /\ _state = Ref(1) /\ cb = 1 /\ cbArg = Ref(3)
  /\ Len(delivered) = 2 /\ delivered[1].val = Ref(2)
  /\ heap[2].c # heap[1].c /\ heap[3] = heap[1]

C13_SingleFlight ==
  /\ [](microtasks <= 1)
  /\ [](_dispatchScheduled <=> microtasks = 1)
  /\ [][microtasks' > microtasks =>
          /\ last'.op = "set" /\ last'.err = "none"
          /\ ~_dispatchScheduled
          /\ _state' # _state
          /\ microtasks' = microtasks + 1]_vars
  /\ [][(_dispatchScheduled /\ ~_dispatchScheduled') => last'.op = "executeDispatch"]_vars

\* a callback of a running dispatch has set the value: the next dispatch is
\* queued while this one runs
C13_Witness ==
  /\ flushing /\ cb # NoCb
  /\ last.op = "set" /\ last.err = "none"
  /\ _dispatchScheduled /\ microtasks = 1 /\ batch = 2

\* C14: a queued dispatch is started in the end; until it starts, no call
\* (a set that changes nothing or throws, a get, a subscribe, an unsubscribe)
\* takes it from the queue, clears the flag or queues a second one; and its
\* start takes the one microtask from the queue.
C14_FlushRuns ==
  /\ (microtasks = 1) ~> (last.op = "executeDispatch")
  /\ [][microtasks' < microtasks =>
          last'.op = "executeDispatch" /\ microtasks' = 0]_vars
  /\ [][(_dispatchScheduled /\ last'.op \in {"set", "get", "subscribe", "unsubscribe"}) =>
          _dispatchScheduled' /\ microtasks' = microtasks]_vars

\* a set has thrown while a dispatch was queued
C14_Witness ==
  /\ last.op = "set" /\ last.err = "IncompatibleType"
  /\ ~flushing /\ _dispatchScheduled /\ microtasks = 1 /\ _subscribers # <<>>

\* C15: the typeof of the stored value is the one captured at construction,
\* and a stored object is of the composite kind captured at construction.
C15_KindInvariant ==
  /\ _state.r = 0 => _state.ty = _type
  /\ _state.r # 0 =>
       /\ _type = (IF heap[_state.r].cls = "Function" THEN "function" ELSE "object")
       /\ _mutableType = KindOf(heap[_state.r].cls)

\* a container of an array holds another array after a set that was accepted
\* and one that was not
C15_Witness ==
  /\ _mutableType = "array" /\ _state = Ref(2) /\ lastOk = Ref(2)
  /\ last.op = "set" /\ last.err = "IncompatibleCompositeType"

\* C16 as claimed: a dispatch invokes no subscriber that was added while it
\* ran, and a dispatch that runs to its end has invoked every subscriber that
\* was registered when it began, also one removed while it ran.
C16_AsClaimed ==
  /\ \A i \in 1..Len(delivered) : delivered[i].id \in Range(atStart)
  /\ last.op = "dispatched" => Range(atStart) \subseteq Range(Ids(delivered))

\* C16: a dispatch invokes the subscribers that are registered when their turn
\* comes: one that a callback has just invoked is registered; a dispatch that
\* runs to its end has invoked every subscriber registered at its end, those
\* added while it ran included; and a subscriber registered at its start that
\* it has not invoked was unsubscribed.
C16_LiveRegistry ==
  /\ (last.op = "notify" /\ last.err = "none") => last.ret.v \in Range(_subscribers)
  /\ last.op = "dispatched" =>
       /\ Range(_subscribers) \subseteq Range(Ids(delivered))
       /\ \A k \in Range(atStart) : k \notin Range(Ids(delivered)) => k \in removed

\* the first callback has removed the second subscriber and added a third:
\* the dispatch has invoked the first and the third
C16_Witness ==
  /\ last.op = "dispatched" /\ atStart = <<0, 1>>
  /\ Ids(delivered) = <<0, 2>> /\ removed = {1}

\* C17: a container is made with an object that structuredClone cannot
\* copy; with cloning on, every get while that object is stored throws
\* CloneFailure, returns nothing and leaves the value, the registry, the flag,
\* the queue and the objects as they are.
C17_CloneFailure ==
  /\ [](last.op = "new" => last.err = "none")
  /\ [][(last'.op = "get" /\ _shouldClone /\ _state.r # 0
           /\ heap[_state.r].cls = "WeakMap") =>
          last'.err = "CloneFailure" /\ last'.ret = NoVal /\ Untouched]_vars

\* get has thrown on the container made with an object that cannot be copied,
\* with a subscriber registered and a dispatch queued
C17_Witness ==
  /\ last.op = "get" /\ last.err = "CloneFailure"
  /\ _state = Ref(1) /\ heap[1].cls = "WeakMap"
  /\ _subscribers # <<>> /\ _dispatchScheduled

\* C18: after the writes v1..vn that follow the initial v0, then k undos
\* that found an entry to go back to and j redos that found one to go forward
\* to, the container holds v(n-k+j), with k <= n and j <= k; the undo after n
\* undos and the redo after as many redos as undos change nothing.
C18_UndoRedo ==
  /\ [](recipe.phase # "x" =>
          /\ recipe.k <= Len(recipe.vs) - 1 /\ recipe.j <= recipe.k
          /\ _state = recipe.vs[Len(recipe.vs) - recipe.k + recipe.j])
  /\ [][(undo /\ recipe.phase \in {"w", "u"} /\ recipe.k = Len(recipe.vs) - 1) =>
          UNCHANGED <<_state, _dispatchScheduled, microtasks, recipe>>]_vars
  /\ [][(redo /\ recipe.phase \in {"w", "u", "r"} /\ recipe.j = recipe.k) =>
          UNCHANGED <<_state, _dispatchScheduled, microtasks, recipe>>]_vars

\* 1, 2 and 3 have been written over 0, two undos and one redo have been made
C18_Witness ==
  /\ recipe.vs = <<Num(0), Num(1), Num(2), Num(0)>>
  /\ recipe.phase = "r" /\ recipe.k = 2 /\ recipe.j = 1
  /\ _state = Num(2) /\ last.op = "set"

\* the keys set and not deleted since
LiveKeys == {key \in KeyNames : recipe.live[key] # 0}

\* C19: get(key) returns the value of the last set of the key that no delete
\* of it followed, and undefined when there is none; has(key) tells whether
\* there is one; keys() lists those keys, each once; a set or a delete stores
\* a Map that did not exist before, leaves every Map that existed as it was,
\* and queues the dispatch.
C19_StateMap ==
  /\ [][last'.op = "mapGet" => \A key \in KeyNames :
          Read("mapGet", key) =>
            /\ last'.err = "none"
            /\ last'.ret = (IF key \in LiveKeys THEN Num(recipe.live[key]) ELSE Undefined)]_vars
  /\ [][last'.op = "mapHas" => \A key \in KeyNames :
          Read("mapHas", key) => last'.err = "none" /\ last'.ret = Bool(key \in LiveKeys)]_vars
  /\ [][last'.op = "mapKeys" =>
          /\ last'.err = "none"
          /\ Range(last'.ret) = LiveKeys
          /\ Len(last'.ret) = Cardinality(LiveKeys)]_vars
  /\ [][last'.op = "set" =>
          /\ last'.err = "none"
          /\ _state'.r \in FreeRefs(heap)
          /\ \A r \in Allocated(heap) : heap'[r] = heap[r]
          /\ _dispatchScheduled' /\ microtasks' = 1]_vars

\* key 2 has been set and key 1 deleted in one batch: has("1") has returned
\* false
C19_Witness ==
  /\ recipe.live["1"] = 0 /\ recipe.live["2"] = 2 /\ batch = 2
  /\ last.op = "mapHas" /\ last.ret = Bool(FALSE)
  /\ heap[_state.r].c = << <<"2", 2>> >>

\* C20: when the callback behind the wrapper throws, onError is called once,
\* with the value the wrapper was invoked with, and the dispatch goes on: it
\* is cut short only when onError throws, and when it runs to its end it has
\* invoked every subscriber, those after the wrapped one included. (The
\* subscribers that are not wrapped return normally.)
C20_ErrorBoundary ==
  /\ [][CaughtThrow =>
          /\ flushing' /\ cursor' = cursor
          /\ Pending(_subscribers', cursor') = Pending(_subscribers, cursor)]_vars
  /\ [][(flushing /\ ~flushing' /\ last'.op # "dispatched") => OnErrorThrows]_vars
  /\ [](\A i \in 1..Len(recipe.errors) :
          /\ \E n \in 1..Len(delivered) :
               delivered[n].id = recipe.errors[i].id /\ delivered[n].val = recipe.errors[i].val
          /\ \A n \in 1..Len(recipe.errors) : n # i => recipe.errors[n].id # recipe.errors[i].id)
  /\ [](last.op = "dispatched" => Ids(delivered) = _subscribers)

\* the callback of the first subscription has thrown behind the wrapper, and
\* the dispatch has invoked the two subscribers after it
C20_Witness ==
  /\ last.op = "dispatched"
  /\ Ids(delivered) = <<0, 1, 2>> /\ recipe.wrapped = {0}
  /\ Len(recipe.errors) = 1 /\ recipe.errors[1] = [id |-> 0, val |-> Num(1)]

\* C21: when a callback throws during a dispatch, the dispatch is over: the
\* subscribers before the thrower in the Map have been invoked in it, the
\* thrower is the last one invoked, those after it have not been invoked, and
\* no callback is invoked until another microtask begins another dispatch.
C21_NoFaultIsolation ==
  /\ [](last.op = "throw" =>
          /\ ~flushing
          /\ delivered # <<>> /\ delivered[Len(delivered)].id = last.ret.v
          /\ \A k \in Range(_subscribers) :
               /\ k < last.ret.v => k \in Range(Ids(delivered))
               /\ k > last.ret.v => k \notin Range(Ids(delivered)))
  /\ [][last'.op = "notify" => flushing]_vars
  /\ [][(~flushing /\ flushing') => last'.op = "executeDispatch"]_vars

\* the second of three subscribers has thrown: the first has been invoked,
\* the third has not
C21_Witness ==
  /\ last.op = "throw" /\ last.ret = Num(1)
  /\ _subscribers = <<0, 1, 2>>
  /\ Ids(delivered) = <<0, 1>>

\* C22: a write through the wrapped set leaves as history the entries up to
\* the cursor followed by the new value, with the cursor on that last entry,
\* so that canRedo() is false; no other call changes the history, and the
\* value of the container is always the entry under the cursor: what undo and
\* redo can reach are the entries of the history, not the ones a write dropped.
C22_Truncation ==
  /\ [][\A value \in UndoValues : UndoableSet(value) =>
          /\ recipe'.history = SubSeq(recipe.history, 1, recipe.index + 1) \o <<value>>
          /\ recipe'.index = Len(recipe'.history) - 1
          /\ ~canRedo']_vars
  /\ [][recipe'.history # recipe.history => \E value \in UndoValues : UndoableSet(value)]_vars
  /\ [](/\ recipe.index \in 0..(Len(recipe.history) - 1)
        /\ _state = recipe.history[recipe.index + 1])

\* a write made after an undo has dropped the entry that was past the cursor
C22_Witness ==
  /\ last.op = "set" /\ recipe.phase = "x"
  /\ recipe.history = <<Num(0), Num(2)>> /\ recipe.index = 1
  /\ ~canRedo /\ _state = Num(2)

\* C23: for every maxHistory from 1 on, after any calls of set, undo and redo
\* the history has at most maxHistory entries and the cursor is on one of
\* them; after maxHistory or more writes in a row the undo calls that follow
\* find an entry to go back to maxHistory - 1 times, and then canUndo() is
\* false.
C23_BoundedHistory ==
  /\ Len(recipe.history) \in 1..recipe.maxHistory
  /\ recipe.index \in 0..(Len(recipe.history) - 1)
  /\ (recipe.run >= recipe.maxHistory /\ recipe.phase \in {"w", "u"}) =>
       (canUndo <=> recipe.undone < recipe.maxHistory - 1)

\* four values have gone through a history of three entries, the oldest is
\* dropped, and two undo calls have gone back to the oldest entry left
C23_Witness ==
  /\ recipe.maxHistory = 3 /\ recipe.run = 3 /\ recipe.phase = "u"
  /\ recipe.undone = 2 /\ ~canUndo
  /\ recipe.history = <<Num(1), Num(2), Num(0)>> /\ _state = Num(1)

\* C24: a set made inside a transaction adds no history entry; a
\* commitTransaction made inside a transaction adds one entry, the value of
\* the container, after the entries up to the cursor, and ends the
\* transaction; the undo that follows a transaction of set calls and its
\* commit leaves the container with what it held at beginTransaction. This
\* for every value the container can hold.
C24_Transaction ==
  /\ [][\A value \in UndoValues \cup {Null} \cup {Ref(r) : r \in Allocated(heap)} : (recipe.isInTransaction /\ TxSet(value)) =>
          recipe'.history = recipe.history /\ recipe'.index = recipe.index]_vars
  /\ [][(recipe.isInTransaction /\ commitTransaction) =>
          /\ ~recipe'.isInTransaction
          /\ Len(recipe'.history) = recipe.index + 2
          /\ SubSeq(recipe'.history, 1, recipe.index + 1) = SubSeq(recipe.history, 1, recipe.index + 1)
          /\ View(heap', recipe'.history[recipe.index + 2]) = View(heap, _state)
          /\ recipe'.index = recipe.index + 1]_vars
  /\ [](recipe.phase = "undone" => View(heap, _state) = recipe.held)

\* a transaction begun while the container holds null is still open after
\* commitTransaction
C24_Witness ==
  /\ last.op = "commitTransaction"
  /\ recipe.isInTransaction /\ recipe.phase = "open"
  /\ recipe.held = View(heap, Null) /\ _state # Null

\* the field that the change modifies, when it modifies one
FieldOf(change) == CHOOSE f \in 0..2 : change.after = Modified(change.before, f)
\* three changes recorded one after the other under three ids, each of
\* another field, and the container holds the result of the third
ThreeChanges ==
  /\ Len(recipe.changes) = 3
  /\ \A i, n \in 1..3 : i # n =>
       /\ recipe.changes[i].id # recipe.changes[n].id
       /\ FieldOf(recipe.changes[i]) # FieldOf(recipe.changes[n])
  /\ recipe.changes[2].before = recipe.changes[1].after
  /\ recipe.changes[3].before = recipe.changes[2].after
  /\ _state = recipe.changes[3].after

\* C25: after three changes c1, c2, c3 of three different fields,
\* undoChange of c2 leaves the container with c2's field as it was before c2
\* and with the fields of c1 and c3 as these changes left them.
C25_SelectiveUndo ==
  [][(ThreeChanges /\ undoChange(recipe.changes[2].id)) =>
       /\ Field(_state', FieldOf(recipe.changes[2]))
            = Field(recipe.changes[2].before, FieldOf(recipe.changes[2]))
       /\ Field(_state', FieldOf(recipe.changes[1]))
            = Field(recipe.changes[1].after, FieldOf(recipe.changes[1]))
       /\ Field(_state', FieldOf(recipe.changes[3]))
            = Field(recipe.changes[3].after, FieldOf(recipe.changes[3]))]_vars

\* title, author and content have been set in this order and the change of
\* the author undone: the container holds the title alone
C25_Witness ==
  /\ last.op = "set" /\ Len(recipe.changes) = 3
  /\ <<recipe.changes[1].id, recipe.changes[2].id, recipe.changes[3].id>>
       = <<"set-title", "set-author", "set-content">>
  /\ <<recipe.changes[1].after, recipe.changes[2].after, recipe.changes[3].after>>
       = <<Num(1), Num(3), Num(7)>>
  /\ _state = Num(1)

\* C26: set(k, v) invokes, with v, the callbacks given to subscribeToItem for
\* k whose unsubscribe function has not been called, and no other callback:
\* whether or not k had an entry at subscribeToItem, and after a delete(k) too.
C26_ItemSubscription ==
  [][\A k \in KeyNames, v \in MapValues : CollectionSet(k, v) =>
       recipe'.called = {[cb |-> c, val |-> v] : c \in {c \in {"cb1"} : <<k, c>> \in recipe.active}}]_vars

\* subscribeToItem was called for a key that had no entry, and the set of that
\* key has invoked nothing
C26_Witness ==
  /\ last.op = "set" /\ recipe.called = {}
  /\ recipe.active = {<<"1", "cb1">>}
  /\ Len(recipe.items) = 1 /\ recipe.items[1] = [id |-> "1", value |-> 2, subscribers |-> {}]

\* C27: of two invocations of the selector with no set of the source that
\* returned normally between them, only the first runs the selector function;
\* for every source, one holding an array that is copied included.
C27_Memoized == recipe.calls = 2 => recipe.runs <= 1

\* the source holds an array and copies it: nothing was written, and the
\* second invocation has run the selector function again
C27_Witness ==
  /\ recipe.calls = 2 /\ recipe.runs = 2
  /\ _mutableType = "array" /\ _shouldClone
  /\ _state = Ref(1) /\ lastOk = NoVal /\ last.op = "get"

\* no dispatch of a source is queued
NoSourcePending == \A i \in Sources : ~recipe.src[i].scheduled

\* C28: whenever no dispatch of a source is pending, the derived container
\* holds the combining function of the sources' values; a set of a source
\* does not change the derived container, so that right after it, and until
\* the source's dispatch runs, the derived container holds what was computed
\* from the values before.
C28_Computed ==
  /\ [](NoSourcePending => _state = computeFn(recipe.src))
  /\ [][\A i \in Sources, input \in {Num(0), Num(1), Prim("string", 0)} : SourceWrite(i, input) =>
          /\ _state' = _state
          /\ NoSourcePending => _state' = computeFn(recipe.src)]_vars
  /\ [][_state' # _state => \E i \in Sources : SourceFlush(i)]_vars

\* the first source has been set from 0 to 1 and its dispatch is pending: the
\* derived container still holds the sum of the values before
C28_Witness ==
  /\ last.op = "sourceSet"
  /\ recipe.src[1] = [state |-> Num(1), scheduled |-> TRUE]
  /\ recipe.src[2] = [state |-> Num(1), scheduled |-> FALSE]
  /\ _state = Num(1) /\ computeFn(recipe.src) = Num(2)

\* C29: at most one timer is pending, and it is the one of the last call of
\* the debounced set, holding that call's value; a call of the debounced set
\* writes nothing to the container; of the calls made one after the other
\* while a timer was pending, one write reaches the container: the timer's
\* callback passes the last call's value to state.set, when it fires, and no
\* timer is left.
C29_Debounce ==
  /\ [](/\ Cardinality(recipe.timers) <= 1
        /\ \A t \in recipe.timers : t.id = recipe.timeout /\ t.value = recipe.lastCall
        /\ recipe.fired <= 1
        /\ recipe.fired = 1 /\ last.op = "set" /\ recipe.timers = {} => recipe.wrote = recipe.lastCall)
  /\ [][\A value \in PrimValues : debouncedSet(value) => Untouched]_vars
  /\ [][\A t \in recipe.timers : DebounceFire(t) =>
          /\ recipe'.timers = {}
          /\ recipe'.wrote = recipe.lastCall
          /\ last'.err = "none" => _state' = recipe.lastCall]_vars

\* three calls were made before any timer fired: the timer of the third has
\* fired and the container holds the third value
C29_Witness ==
  /\ recipe.burst = 3 /\ recipe.fired = 1 /\ recipe.timers = {}
  /\ last.op = "set" /\ last.err = "none"
  /\ recipe.lastCall = Num(1) /\ _state = Num(1) /\ recipe.wrote = Num(1)
  /\ lastOk = Num(1) /\ batch = 1

\* C30: two writes forwarded to the container through the throttled set are
\* at least delayMs apart, whenever the calls are made and whenever, from its
\* deadline on, the timer fires; a value passed before delayMs has gone by
\* since the last write is held as pending, and the timer forwards the value
\* that is pending when it fires.
C30_Throttle ==
  /\ [](recipe.gap >= Delay)
  /\ [][\A value \in UndoValues :
          (throttledSet(value) /\ recipe.now - recipe.lastUpdate < Delay) =>
            recipe'.pending = value /\ Untouched]_vars
  /\ [][(ThrottleFire /\ recipe.pending # Null) => _state' = recipe.pending]_vars

\* a write was forwarded at once while a late timer was set, and the timer
\* has forwarded the next value half of delayMs after it
C30_Witness ==
  /\ last.op = "set" /\ recipe.gap = 1 /\ ~recipe.timeout
  /\ recipe.prev = recipe.now /\ recipe.lastUpdate = recipe.now

\* C35: a container made with null has typeof "object" and no composite kind;
\* set(null) returns normally on every container whose typeof is "object",
\* and stores null; on the container made with null, set with an object of
\* any class but a function throws IncompatibleCompositeType and changes
\* nothing.
C35_NullIsNotComposite ==
  /\ (_state = Null => (_type = "object" /\ _mutableType = "undefined"))
  /\ [](_type = "object")
  /\ [][Set(Null) => (last'.err = "none" /\ _state' = Null)]_vars
  /\ [][\A cls \in FreshClasses \ {"Function"} :
          (_mutableType = "undefined" /\ SetNew(cls)) =>
            (last'.err = "IncompatibleCompositeType" /\ Untouched)]_vars

\* null has been written over an array, and an object has been refused by the
\* container made with null
C35_Witness ==
  \/ /\ _mutableType = "array" /\ _state = Null
     /\ last.op = "set" /\ last.err = "none"
  \/ /\ _mutableType = "undefined" /\ _subscribers # <<>>
     /\ last.op = "set" /\ last.err = "IncompatibleCompositeType"


\* C36 as claimed: a dispatch ended by a callback that throws, or by a copy
\* that fails, leaves the flag false.
C36_AsClaimed ==
  [](last.op = "throw" \/ (last.op = "notify" /\ last.err # "none") => ~_dispatchScheduled)

\* C36: a dispatch ended by a callback that throws, or by a copy that fails,
\* leaves the flag false unless a callback of that dispatch has made a set
\* that changed the value, and then the flag is true and one microtask is
\* queued; the flag is never true with nothing queued. A set that changes the
\* value while the flag is false queues a microtask, the dispatch it starts
\* clears the flag and walks the registry from its first entry, and run
\* undisturbed it invokes every registered subscriber.
C36_Recovery ==
  /\ [](last.op = "throw" \/ (last.op = "notify" /\ last.err # "none") =>
          /\ ~flushing
          /\ _dispatchScheduled <=> batch > 0)
  /\ [](_dispatchScheduled <=> microtasks = 1)
  /\ [][(~_dispatchScheduled /\ last'.op = "set" /\ last'.err = "none" /\ _state' # _state) =>
          (_dispatchScheduled' /\ microtasks' = 1)]_vars
  /\ [][last'.op = "executeDispatch" => (~_dispatchScheduled' /\ cursor' = NoCb)]_vars
  /\ [][(last.op = "executeDispatch" /\ last'.op = "notify") => cursor' = Head(_subscribers)]_vars
  /\ [](Dispatched => Ids(delivered) = _subscribers)

\* after a dispatch was interrupted, a later one has invoked both subscribers
C36_Witness ==
  /\ recipe.interrupted
  /\ Dispatched
  /\ Len(delivered) = 2


\* C37: a subscriber is invoked with the value stored at that moment, which
\* is the input of the last set that changed it, a set made by a callback
\* earlier in the same dispatch included; a set by a running callback that
\* changes the value leaves exactly one dispatch queued, however many such
\* sets the callbacks of the dispatch make; and a dispatch that runs
\* undisturbed invokes every registered subscriber with the stored value.
C37_WriteInsideFlush ==
  /\ [][(last'.op = "notify" /\ last'.err = "none") =>
          /\ cbArg' = _state
          /\ lastOk # NoVal => cbArg' = lastOk]_vars
  /\ [][(cb # NoCb /\ last'.op = "set" /\ last'.err = "none" /\ _state' # _state) =>
          /\ _state' = lastOk'
          /\ _dispatchScheduled' /\ microtasks' = 1]_vars
  /\ [](Dispatched =>
          /\ Ids(delivered) = _subscribers
          /\ \A i \in 1..Len(delivered) : delivered[i].val = _state)

\* the first callback of a dispatch has set another value, the second one has
\* been invoked with it, and one dispatch is queued
C37_Witness ==
  /\ flushing /\ Len(delivered) = 2
  /\ delivered[1].val # delivered[2].val
  /\ delivered[2].val = lastOk
  /\ _dispatchScheduled /\ microtasks = 1


\* C38: a call of the wrapped set that the container rejects leaves the
\* history and the cursor as they were, and the stored value is always the
\* history's entry at the cursor.
C38_RejectedWrite ==
  /\ [][(last'.op = "set" /\ last'.err # "none") =>
          (recipe'.history = recipe.history /\ recipe'.index = recipe.index)]_vars
  /\ [](_state = recipe.history[recipe.index + 1])

\* the wrapped set has thrown IncompatibleType, and the entry at the cursor is
\* the value it refused
C38_Witness ==
  /\ last.op = "set" /\ last.err = "IncompatibleType"
  /\ recipe.history[recipe.index + 1] = Prim("string", 0)
  /\ _state # recipe.history[recipe.index + 1]


\* C31: from the second source notification on, the downstream callback is
\* invoked exactly when the selector's result is not identical to its result
\* at the previous source notification; it is never invoked twice in
\* succession with the same value.
C31_SelectorSubscription ==
  /\ [][(cb = recipe.id /\ cb' = NoCb /\ recipe.seen >= 1) =>
          (recipe'.called <=> recipe'.proj # recipe.proj)]_vars
  /\ [](recipe.seen >= 1 => recipe.previousSelected = recipe.proj)
  /\ [](~recipe.twice)

\* the second source notification or a later one has left the downstream
\* callback alone, after an invocation
C31_Witness ==
  /\ recipe.seen = 2
  /\ ~recipe.called
  /\ recipe.given # NoVal
  /\ last.op = "return" /\ last.ret = Num(recipe.id)


C33_BoundedRetries ==
  /\ [][\A id \in 1..MaxEntries, v \in QueueValues, m \in 1..MaxTries :
          enqueue(id, v, m) =>
            IF last'.err = "none"
              THEN /\ _state' = v
                   /\ recipe'.queue[Len(recipe'.queue)].id = id
                   /\ recipe'.log[id].n <= 1
              ELSE UNCHANGED recipe /\ Untouched]_vars
  /\ [](\A id \in 1..MaxEntries :
          /\ recipe.log[id].n <= recipe.log[id].max
          /\ recipe.log[id].out = "done" => recipe.log[id].n >= 1
          /\ recipe.log[id].out = "failed" => recipe.log[id].n = recipe.log[id].max
          /\ recipe.log[id].out = "queued" <=> \E i \in 1..Len(recipe.queue) : recipe.queue[i].id = id)
  /\ [][\A result \in QueueValues \cup {NoVal} :
          Settle(result) =>
            LET id == recipe.queue[1].id IN
            recipe'.log[id].out # "queued" <=>
              \/ result # NoVal /\ last'.err = "none"
              \/ recipe.log[id].n = recipe.log[id].max]_vars
  /\ [](\A i \in 2..Len(recipe.queue) : recipe.log[recipe.queue[i].id].n = 0)

\* the first entry was given up after two attempts, and the second one, kept
\* waiting behind it, has been removed after an attempt that succeeded
C33_Witness ==
  /\ recipe.log[1].out = "failed" /\ recipe.log[1].n = 2
  /\ recipe.log[2].late /\ recipe.log[2].out = "done"

\* C34: every entry that is queued leaves the queue in the end; when the
\* queue is empty and no operation is awaited, `processing` is false; and an
\* enqueue that returns while `processing` is false starts the operation of
\* its entry.
C34_QueueProgress ==
  /\ \A id \in 1..MaxEntries :
       (recipe.log[id].out = "queued") ~> (recipe.log[id].out \in {"done", "failed"})
  /\ [](recipe.queue = <<>> /\ recipe.pc # "attempt" => ~recipe.processing)
  /\ [](recipe.processing <=> recipe.pc # "idle")
  /\ [][\A id \in 1..MaxEntries, v \in QueueValues, m \in 1..MaxTries :
          (enqueue(id, v, m) /\ ~recipe.processing /\ last'.err = "none") =>
            (recipe'.processing /\ recipe'.pc = "attempt" /\ recipe'.log[id].n = 1)]_vars

\* an entry enqueued during a backoff has left the queue, the queue has run
\* empty, and the entry enqueued after that has been processed too
C34_Witness ==
  /\ recipe.log[2].late /\ recipe.log[2].out \in {"done", "failed"}
  /\ ~recipe.log[3].late /\ recipe.log[3].out = "done"
  /\ recipe.queue = <<>> /\ ~recipe.processing


\* C39: createDebouncedOptimistic, stale save: after update(v) the container
\* holds v until the next update call or until the save operation started
\* for v itself settles; the completion of a save started for an earlier
\* value never replaces it
C39_NoStaleSave ==
  recipe.name = "debouncedOptimistic" /\ recipe.timeoutId # 0
    /\ recipe.timeoutId \notin recipe.settled
  => _state = recipe.lastCall

\* a save started for an earlier value has settled while the last update's
\* own save has not
C39_Witness ==
  /\ recipe.name = "debouncedOptimistic"
  /\ last.op \in {"set", "rejected"}
  /\ recipe.timeoutId = 2
  /\ recipe.settled = {1}
  /\ recipe.lastCall = Num(2)


\* C40: createSyncedState, convergence: with two contexts on one key, once
\* the local writes have stopped the exchange of storage-change
\* notifications ends, and both containers hold the value stored under the
\* key
C40_Convergence ==
  <>[](/\ recipe.name = "synced"
       /\ recipe.events = <<(<<>>), (<<>>)>>
       /\ ~_dispatchScheduled /\ ~flushing /\ ~recipe.other.scheduled
       /\ recipe.storage # "" =>
            (_state = parse(recipe.storage) /\ recipe.other.state = parse(recipe.storage)))

\* the local writes are used up, and the two containers hold different
\* values while each context has the other's value on its way, after
\* notifications have changed a container twice or more
C40_Witness ==
  /\ recipe.name = "synced"
  /\ recipe.writes = 2
  /\ recipe.echo = 2
  /\ _state = Num(1) /\ recipe.other.state = Num(2)
  /\ recipe.events = <<(<<"2">>), (<<"1">>)>>


TypeOK ==
  /\ _nextId \in 0..MaxSubs
  /\ Range(_subscribers) \subseteq 0..(MaxSubs - 1)
  /\ microtasks \in 0..1
  /\ \A r \in RefOf(_state) \cup RefOf(cbArg) : heap[r].cls # ""
====
